---- MODULE Spec2Model ----
(***************************************************************************)
(* A model of sonalys/kset: the store-generic key-only set (key_set.go)    *)
(* and key-value set (key_value_set.go) over the four backing stores       *)
(* selected by StoreType (store.go).                                       *)
(*                                                                         *)
(* A program holds set objects in the variables "a", "b" and "r".  "a" and *)
(* "b" are assigned by the constructors, "r" by the set-returning methods. *)
(* Every set object references one store of the heap `stores`.             *)
(***************************************************************************)
EXTENDS Integers, Sequences, FiniteSets, TLC

\* ---------------------------------------------------------------- bounds
MaxKey == 2
MaxLen == 2

Keys == 1..MaxKey
Names == {"Alice", "Bob"}
\* the element type of the key-value sets: type User struct { ID int; Name string }
Values == [ID : Keys, Name : Names]
\* struct{}{}, the value a key-only set stores under every key
Unit == [ID |-> 0, Name |-> "struct{}"]

\* ------------------------------------------------------------- StoreType
StoreTypeUndefined == 0
HashMap == 1
HashMapUnsafe == 2
TreeMap == 3
TreeMapUnsafe == 4

StoreTypes == {HashMap, HashMapUnsafe, TreeMap, TreeMapUnsafe}
\* what a caller may pass as storeType: the enum's values and one past its end
StoreTypeInputs == StoreTypeUndefined..(TreeMapUnsafe + 1)

storeTypeString ==
    (HashMap :> "hashMap") @@ (HashMapUnsafe :> "unsafeHashMap")
        @@ (TreeMap :> "treeMap") @@ (TreeMapUnsafe :> "unsafeTreeMap")

StoreType_String(t) ==
    IF t \in DOMAIN storeTypeString THEN storeTypeString[t]
    ELSE "invalid(" \o ToString(t) \o ")"
LockedStoreTypes == {HashMap, TreeMap}
TreeStoreTypes == {TreeMap, TreeMapUnsafe}

VARIABLES
    stores,   \* the heap: store id -> [type, m], m the map the store keeps
    sets,     \* program variable -> the set object it holds
    last,     \* the last call: method, receiver, argument, input, result
    pc,       \* "ok", or how the program ended: "panic", "blocked", "fatal"
    mutex,    \* owner of a sync.RWMutex (set or store id) -> the state of that lock
    threads   \* goroutine -> the call it is in and how far it got

vars == <<stores, sets, last, pc, mutex, threads>>

\* ---------------------------------------------------------- small helpers
RECURSIVE SeqsUpTo(_, _)
SeqsUpTo(S, n) ==
    IF n = 0 THEN {<<>>}
    ELSE LET shorter == SeqsUpTo(S, n - 1)
         IN shorter \cup {Append(s, x) : s \in {t \in shorter : Len(t) = n - 1}, x \in S}

Range(s) == {s[i] : i \in DOMAIN s}

Perms(S) ==
    {s \in [1..Cardinality(S) -> S] : \A i, j \in 1..Cardinality(S) : s[i] = s[j] => i = j}

Ascending(S) ==
    CHOOSE s \in Perms(S) : \A i, j \in 1..Cardinality(S) : i < j => s[i] < s[j]

\* func(u User) int { return u.ID }
userIDSelector(v) == v.ID

\* calling the set's selector field; the field is "nil" when a constructor
\* literal left it out
HasSelector(set) == set.selector # "nil"
\* the newStore field: <<>> is the nil func, <<t>> a closure building a store of type t
HasNewStore(set) == set.newStore # <<>>

EmptyMap == [k \in {} |-> Unit]

\* --------------------------------------------------------------- stores
\* treemap.New / make(map[K]V): an empty store of the given type
NewStore(t) == [type |-> t, m |-> EmptyMap]

StoreLen(st) == Cardinality(DOMAIN st.m)

StoreContains(st, key) == key \in DOMAIN st.m

\* (value, ok)
StoreGet(st, key) ==
    IF key \in DOMAIN st.m THEN <<st.m[key], TRUE>> ELSE <<Unit, FALSE>>

MapSet(m, key, value) ==
    [k \in DOMAIN m \cup {key} |-> IF k = key THEN value ELSE m[k]]

MapDel(m, key) ==
    [k \in DOMAIN m \ {key} |-> m[k]]

\* Upsert of the four concrete stores
safeMapStore_Upsert(st, key, value) == [st EXCEPT !.m = MapSet(st.m, key, value)]
unsafeMapStore_Upsert(st, key, value) == [st EXCEPT !.m = MapSet(st.m, key, value)]
treeMapStore_Upsert(st, key, value) == [st EXCEPT !.m = MapSet(st.m, key, value)]
\* func (t *unsafeTreeMapStore[K, V]) Upsert(key K, value V) { }
unsafeTreeMapStore_Upsert(st, key, value) == st

\* Store.Upsert, dispatched on the concrete store
StoreUpsert(st, key, value) ==
    CASE st.type = HashMap -> safeMapStore_Upsert(st, key, value)
      [] st.type = HashMapUnsafe -> unsafeMapStore_Upsert(st, key, value)
      [] st.type = TreeMap -> treeMapStore_Upsert(st, key, value)
      [] st.type = TreeMapUnsafe -> unsafeTreeMapStore_Upsert(st, key, value)

\* Delete of the four concrete stores
safeMapStore_Delete(st, key) == [st EXCEPT !.m = MapDel(st.m, key)]
unsafeMapStore_Delete(st, key) == [st EXCEPT !.m = MapDel(st.m, key)]
treeMapStore_Delete(st, key) == [st EXCEPT !.m = MapDel(st.m, key)]
\* func (t *unsafeTreeMapStore[K, V]) Delete(key K) { }
unsafeTreeMapStore_Delete(st, key) == st

\* Store.Delete, dispatched on the concrete store
StoreDelete(st, key) ==
    CASE st.type = HashMap -> safeMapStore_Delete(st, key)
      [] st.type = HashMapUnsafe -> unsafeMapStore_Delete(st, key)
      [] st.type = TreeMap -> treeMapStore_Delete(st, key)
      [] st.type = TreeMapUnsafe -> unsafeTreeMapStore_Delete(st, key)

StoreClear(st) == [st EXCEPT !.m = EmptyMap]

\* an Iter that walks every store as a Go map is walked
StoreIterOrders_AnyOrder(st) == Perms(DOMAIN st.m)

\* the key orders Iter may yield: ascending for a tree, any order for a Go map
StoreIterOrders(st) ==
    IF st.type \in TreeStoreTypes THEN {Ascending(DOMAIN st.m)}
    ELSE Perms(DOMAIN st.m)

\* Clone: a new store of the same concrete type; the tree stores copy with
\* treemap.Set, the map stores with Upsert on the new map store
StoreClone(st) == [type |-> st.type, m |-> st.m]

\* the store constructors: every initial value is upserted in order
RECURSIVE UpsertAll(_, _, _)
UpsertAll(st, keys, values) ==
    IF keys = <<>> THEN st
    ELSE UpsertAll(StoreUpsert(st, Head(keys), Head(values)), Tail(keys), Tail(values))

RECURSIVE DeleteAll(_, _)
DeleteAll(st, keys) ==
    IF keys = <<>> THEN st
    ELSE DeleteAll(StoreDelete(st, Head(keys)), Tail(keys))

Select(values) == [i \in DOMAIN values |-> userIDSelector(values[i])]
Units(keys) == [i \in DOMAIN keys |-> Unit]

NewStoreKeyValue(t, values) == UpsertAll(NewStore(t), Select(values), values)
NewStoreKey(t, keys) == UpsertAll(NewStore(t), keys, Units(keys))

\* ------------------------------------------------------------ the heap
Put(h, id, st) == (id :> st) @@ h

\* what a method call leaves behind: how it ended, what it returned, the heap,
\* and for a set-returning method the new set object
Returned(h, ret) == [status |-> "ok", ret |-> ret, h |-> h]
Derived(h, set) == [status |-> "ok", ret |-> set, h |-> h]
\* a call of a nil func field, or any other run-time panic
Panicked(h) == [status |-> "panic", ret |-> "panic", h |-> h]
\* Lock() of an RWMutex whose read lock the same goroutine holds
Blocked(h) == [status |-> "blocked", ret |-> "blocked", h |-> h]

\* the zero value Pop returns on an empty set
ZeroKey == 0
ZeroValue == [ID |-> 0, Name |-> ""]

\* ----------------------------------- the Set[K] methods both sets implement
Set_Len(h, k) == StoreLen(h[k.store])

Set_IsEmpty(h, k) == Set_Len(h, k) = 0

\* ContainsKeys(keys...): every key is in the store
Set_ContainsKeys(h, k, keys) == \A i \in DOMAIN keys : StoreGet(h[k.store], keys[i])[2]

\* an IsSubset that answers from the two lengths alone
Set_IsSubset_LenOnly(h, k, other) == Set_Len(h, k) <= Set_Len(h, other)

\* IsSubset: false when the receiver is longer, else every key of the receiver is in other
Set_IsSubset(h, k, other) ==
    IF Set_Len(h, k) > Set_Len(h, other) THEN FALSE
    ELSE \A key \in DOMAIN h[k.store].m : Set_ContainsKeys(h, other, <<key>>)

\* Iter / ToSlice in the store's order `ord`: the keys of a key-only set, the values
\* of a key-value set
Set_ToSlice(h, k, ord) ==
    IF k.type = "keySet" THEN ord ELSE [i \in DOMAIN ord |-> h[k.store].m[ord[i]]]

\* IsProperSubset: k.Len() < other.Len() && k.IsSubset(other)
Set_IsProperSubset(h, k, other) ==
    Set_Len(h, k) < Set_Len(h, other) /\ Set_IsSubset(h, k, other)

\* an Equal that leaves out the comparison of the lengths
Set_Equal_NoLen(h, k, other) ==
    \A key \in DOMAIN h[k.store].m : Set_ContainsKeys(h, other, <<key>>)

\* Equal: the same Len, and every key of the receiver is in other
Set_Equal(h, k, other) ==
    IF Set_Len(h, k) # Set_Len(h, other) THEN FALSE
    ELSE \A key \in DOMAIN h[k.store].m : Set_ContainsKeys(h, other, <<key>>)

\* an Intersects that asks for every key of the receiver to be in other
Set_Intersects_All(h, k, other) ==
    \A key \in DOMAIN h[k.store].m : Set_ContainsKeys(h, other, <<key>>)

\* Intersects: true at the first key of the receiver that other contains
Set_Intersects(h, k, other) ==
    \E key \in DOMAIN h[k.store].m : Set_ContainsKeys(h, other, <<key>>)

\* ---------------------------------------------------------------- keySet
\* NewKeySet(storeType, values...)
\* a constructor that falls back to the hash map store for an unknown store type
NewKeySet_DefaultStore(h, storeType, values, fresh) ==
    Derived(Put(h, fresh,
                NewStoreKey(IF storeType \in StoreTypes THEN storeType ELSE HashMap, values)),
            [type |-> "keySet", store |-> fresh, selector |-> "nil",
             newStore |-> <<HashMap>>])

NewKeySet(h, storeType, values, fresh) ==
    IF storeType \notin StoreTypes THEN Panicked(h)
    ELSE Derived(Put(h, fresh, NewStoreKey(storeType, values)),
                 [type |-> "keySet", store |-> fresh, selector |-> "nil",
                  newStore |-> <<HashMap>>])

keySet_Append(h, k, keys) ==
    LET prev == h[k.store]
        next == UpsertAll(prev, keys, Units(keys))
    IN Returned(Put(h, k.store, next), StoreLen(next) - StoreLen(prev))

keySet_Clear(h, k) == Returned(Put(h, k.store, StoreClear(h[k.store])), "void")

\* a Clone that hands back a wrapper around the receiver's own store
keySet_Clone_SharedStore(h, k, fresh) ==
    Derived(h, [type |-> "keySet", store |-> k.store, selector |-> "nil",
                newStore |-> <<>>])

keySet_Clone(h, k, fresh) ==
    Derived(Put(h, fresh, StoreClone(h[k.store])),
            [type |-> "keySet", store |-> fresh, selector |-> "nil", newStore |-> <<>>])

keySet_Remove(h, k, keys) ==
    Returned(Put(h, k.store, DeleteAll(h[k.store], keys)), "void")

\* for key := range k.store.Iter() { k.store.Delete(key); return key, true }
keySet_Pop(h, k, ord) ==
    IF ord = <<>> THEN Returned(h, [key |-> ZeroKey, ok |-> FALSE])
    ELSE IF h[k.store].type \in LockedStoreTypes THEN Blocked(h)
    ELSE Returned(Put(h, k.store, StoreDelete(h[k.store], ord[1])), [key |-> ord[1], ok |-> TRUE])

keySet_Difference(h, k, other, ord, fresh) ==
    IF ~HasNewStore(k) THEN Panicked(h)
    ELSE LET kept == SelectSeq(ord, LAMBDA key : ~Set_ContainsKeys(h, other, <<key>>))
             diff == UpsertAll(NewStore(k.newStore[1]), kept, Units(kept))
         IN Derived(Put(h, fresh, diff),
                    [type |-> "keySet", store |-> fresh, selector |-> "nil",
                     newStore |-> k.newStore])

keySet_Intersect(h, k, other, ord, fresh) ==
    IF ~HasNewStore(k) THEN Panicked(h)
    ELSE LET kept == SelectSeq(ord, LAMBDA key : Set_ContainsKeys(h, other, <<key>>))
             intersection == UpsertAll(NewStore(k.newStore[1]), kept, Units(kept))
         IN Derived(Put(h, fresh, intersection),
                    [type |-> "keySet", store |-> fresh, selector |-> "nil",
                     newStore |-> k.newStore])

keySet_SymmetricDifference(h, k, other, ord, otherOrd, fresh) ==
    IF ~HasNewStore(k) THEN Panicked(h)
    ELSE LET mine == SelectSeq(ord, LAMBDA key : ~Set_ContainsKeys(h, other, <<key>>))
             theirs == SelectSeq(otherOrd, LAMBDA key : ~Set_ContainsKeys(h, k, <<key>>))
             sd == UpsertAll(NewStore(k.newStore[1]), mine \o theirs, Units(mine \o theirs))
         IN Derived(Put(h, fresh, sd),
                    [type |-> "keySet", store |-> fresh, selector |-> "nil",
                     newStore |-> k.newStore])

\* a Union that appends other's keys to the receiver's own store before copying it
keySet_Union_InPlace(h, k, other, otherOrd, fresh) ==
    LET union == UpsertAll(h[k.store], otherOrd, Units(otherOrd))
    IN Derived(Put(Put(h, k.store, union), fresh, StoreClone(union)),
               [type |-> "keySet", store |-> fresh, selector |-> "nil", newStore |-> <<>>])

\* union := k.Clone(); for key := range other.Iter() { union.Append(key) }
keySet_Union(h, k, other, otherOrd, fresh) ==
    LET union == UpsertAll(StoreClone(h[k.store]), otherOrd, Units(otherOrd))
    IN Derived(Put(h, fresh, union),
               [type |-> "keySet", store |-> fresh, selector |-> "nil", newStore |-> <<>>])

\* if k.Len() > other.Len() { return false }; every key of k must be in other
keySet_IsSuperset(h, k, other) ==
    IF Set_Len(h, k) > Set_Len(h, other) THEN FALSE
    ELSE \A key \in DOMAIN h[k.store].m : Set_ContainsKeys(h, other, <<key>>)

keySet_IsProperSuperset(h, k, other) ==
    Set_Len(h, k) > Set_Len(h, other) /\ keySet_IsSuperset(h, k, other)

\* ----------------------------------------------------------- keyValueSet
\* NewKeyValueSet(storeType, selector, values...)
NewKeyValueSet(h, storeType, values, fresh) ==
    IF storeType \notin StoreTypes THEN Panicked(h)
    ELSE Derived(Put(h, fresh, NewStoreKeyValue(storeType, values)),
                 [type |-> "keyValueSet", store |-> fresh, selector |-> "ID",
                  newStore |-> <<storeType>>])

\* an Append that skips a value whose key is already stored
keyValueSet_Append_KeepStored(h, k, values) ==
    IF values # <<>> /\ ~HasSelector(k) THEN Panicked(h)
    ELSE LET prev == h[k.store]
             added == SelectSeq(values, LAMBDA v : ~StoreContains(prev, userIDSelector(v)))
             next == UpsertAll(prev, Select(added), added)
         IN Returned(Put(h, k.store, next), StoreLen(next) - StoreLen(prev))

\* key := k.selector(val) is a call of a nil func when the selector field is unset
keyValueSet_Append(h, k, values) ==
    IF values # <<>> /\ ~HasSelector(k) THEN Panicked(h)
    ELSE LET prev == h[k.store]
             next == UpsertAll(prev, Select(values), values)
         IN Returned(Put(h, k.store, next), StoreLen(next) - StoreLen(prev))

keyValueSet_Clear(h, k) == Returned(Put(h, k.store, StoreClear(h[k.store])), "void")

keyValueSet_Clone(h, k, fresh) ==
    Derived(Put(h, fresh, StoreClone(h[k.store])),
            [type |-> "keyValueSet", store |-> fresh, selector |-> k.selector,
             newStore |-> <<>>])

keyValueSet_Remove(h, k, values) ==
    IF values # <<>> /\ ~HasSelector(k) THEN Panicked(h)
    ELSE Returned(Put(h, k.store, DeleteAll(h[k.store], Select(values))), "void")

\* for key, value := range k.data.Iter() { k.data.Delete(key); return value, true }
keyValueSet_Pop(h, k, ord) ==
    IF ord = <<>> THEN Returned(h, [value |-> ZeroValue, ok |-> FALSE])
    ELSE IF h[k.store].type \in LockedStoreTypes THEN Blocked(h)
    ELSE Returned(Put(h, k.store, StoreDelete(h[k.store], ord[1])),
                  [value |-> h[k.store].m[ord[1]], ok |-> TRUE])

\* Contains(values...): a call of the selector per value
keyValueSet_ContainsPanics(k, values) == values # <<>> /\ ~HasSelector(k)
keyValueSet_Contains(h, k, values) ==
    \A i \in DOMAIN values : StoreContains(h[k.store], userIDSelector(values[i]))

\* func (m *unsafeMapStore[K, V]) NewKeyValueSet(): a set around the store m itself,
\* with m's selector and a factory of empty stores of m's kind
unsafeMapStore_NewKeyValueSet(h, m) ==
    Derived(h, [type |-> "keyValueSet", store |-> m, selector |-> "ID",
                newStore |-> <<HashMapUnsafe>>])

\* diff := &keyValueSet{data: k.data.Clone().(S)}; then diff.Append(value) for every
\* entry of k whose key other lacks: diff has no selector, so the first Append panics
keyValueSet_Difference(h, k, other, ord, fresh) ==
    LET diffSet == [type |-> "keyValueSet", store |-> fresh, selector |-> "nil",
                    newStore |-> <<>>]
        kept == SelectSeq(ord, LAMBDA key : ~Set_ContainsKeys(h, other, <<key>>))
        values == [i \in DOMAIN kept |-> h[k.store].m[kept[i]]]
        h1 == Put(h, fresh, StoreClone(h[k.store]))
        appended == keyValueSet_Append(h1, diffSet, values)
    IN IF appended.status = "panic" THEN Panicked(h)
       ELSE Derived(appended.h, diffSet)

keyValueSet_Intersect(h, k, other, ord, fresh) ==
    IF ~HasNewStore(k) THEN Panicked(h)
    ELSE LET intersection == [type |-> "keyValueSet", store |-> fresh,
                              selector |-> k.selector, newStore |-> k.newStore]
             kept == SelectSeq(ord, LAMBDA key : Set_ContainsKeys(h, other, <<key>>))
             values == [i \in DOMAIN kept |-> h[k.store].m[kept[i]]]
             h1 == Put(h, fresh, NewStore(k.newStore[1]))
             appended == keyValueSet_Append(h1, intersection, values)
         IN IF appended.status = "panic" THEN Panicked(h)
            ELSE Derived(appended.h, intersection)

\* first loop: the receiver's values other does not Contain; second loop: other's
\* values the receiver does not Contain
keyValueSet_SymmetricDifference(h, k, other, ord, otherOrd, fresh) ==
    IF ~HasNewStore(k) THEN Panicked(h)
    ELSE LET sd == [type |-> "keyValueSet", store |-> fresh,
                    selector |-> k.selector, newStore |-> k.newStore]
             myValues == Set_ToSlice(h, k, ord)
             otherValues == Set_ToSlice(h, other, otherOrd)
             mine == SelectSeq(myValues, LAMBDA v : ~keyValueSet_Contains(h, other, <<v>>))
             theirs == SelectSeq(otherValues, LAMBDA v : ~keyValueSet_Contains(h, k, <<v>>))
             h1 == Put(h, fresh, NewStore(k.newStore[1]))
             appended == keyValueSet_Append(h1, sd, mine \o theirs)
         IN IF \/ keyValueSet_ContainsPanics(other, myValues)
               \/ keyValueSet_ContainsPanics(k, otherValues)
               \/ appended.status = "panic"
            THEN Panicked(h)
            ELSE Derived(appended.h, sd)

\* union := k.Clone(); for elem := range other.Iter() { union.Append(elem) }
keyValueSet_Union(h, k, other, otherOrd, fresh) ==
    LET cloned == keyValueSet_Clone(h, k, fresh)
        appended == keyValueSet_Append(cloned.h, cloned.ret, Set_ToSlice(h, other, otherOrd))
    IN IF appended.status = "panic" THEN Panicked(h)
       ELSE Derived(appended.h, cloned.ret)

\* return other.IsSubset(k)
keyValueSet_IsSuperset(h, k, other) == Set_IsSubset(h, other, k)

keyValueSet_IsProperSuperset(h, k, other) ==
    Set_Len(h, k) > Set_Len(h, other) /\ keyValueSet_IsSuperset(h, k, other)

\* ------------------------------------------------------------- the program
SetTypes == {"keySet", "keyValueSet"}
Elems(type) == IF type = "keySet" THEN Keys ELSE Values
Inputs(type) == SeqsUpTo(Elems(type), MaxLen)

Live == DOMAIN sets
StoreOf(v) == stores[sets[v].store]
Orders(v) == StoreIterOrders(StoreOf(v))
NoInput == <<>>

\* what the caller holds after the call: the variable assigned, the count Append
\* returned, Pop's (element, ok), a predicate's bool; nothing when the call did not return
Result(out, op, target) ==
    IF out.status # "ok" THEN [end |-> out.status]
    ELSE IF target # "" THEN [set |-> target]
    ELSE IF op = "Append" THEN [count |-> out.ret]
    ELSE IF op = "Pop" THEN out.ret
    ELSE IF op \in {"Remove", "Clear", "Upsert", "Delete"} THEN [end |-> "void"]
    ELSE [bool |-> out.ret]

\* the call returns (or never does): its effect on the heap, the variable assigned
Finish(out, op, recv, arg, in, target) ==
    /\ pc' = out.status
    /\ stores' = out.h
    /\ sets' = IF target # "" /\ out.status = "ok" THEN Put(sets, target, out.ret) ELSE sets
    /\ last' = [op |-> op, recv |-> recv, arg |-> arg, in |-> in,
                ret |-> Result(out, op, target)]
    /\ UNCHANGED <<mutex, threads>>

Init ==
    /\ stores = [id \in {} |-> NewStore(HashMap)]
    /\ sets = [v \in {} |-> 0]
    /\ last = [op |-> "start", recv |-> "", arg |-> "", in |-> NoInput,
              ret |-> [end |-> "void"]]
    /\ pc = "ok"
    /\ mutex = <<>>
    /\ threads = <<>>

\* v := NewKeySet(storeType, values...) or v := NewKeyValueSet(storeType, selector, values...)
New(v, type, storeType, values) ==
    /\ pc = "ok" /\ v \notin Live
    /\ \A w \in Live : sets[w].type = type
    /\ Finish(IF type = "keySet" THEN NewKeySet(stores, storeType, values, v)
              ELSE NewKeyValueSet(stores, storeType, values, v),
              "New", "", StoreType_String(storeType), values, v)

DoAppend(v, values) ==
    /\ pc = "ok" /\ v \in Live
    /\ Finish(IF sets[v].type = "keySet" THEN keySet_Append(stores, sets[v], values)
              ELSE keyValueSet_Append(stores, sets[v], values),
              "Append", v, "", values, "")

DoRemove(v, values) ==
    /\ pc = "ok" /\ v \in Live
    /\ Finish(IF sets[v].type = "keySet" THEN keySet_Remove(stores, sets[v], values)
              ELSE keyValueSet_Remove(stores, sets[v], values),
              "Remove", v, "", values, "")

DoClear(v) ==
    /\ pc = "ok" /\ v \in Live
    /\ Finish(IF sets[v].type = "keySet" THEN keySet_Clear(stores, sets[v])
              ELSE keyValueSet_Clear(stores, sets[v]),
              "Clear", v, "", NoInput, "")

DoPop(v, ord) ==
    /\ pc = "ok" /\ v \in Live /\ ord \in Orders(v)
    /\ Finish(IF sets[v].type = "keySet" THEN keySet_Pop(stores, sets[v], ord)
              ELSE keyValueSet_Pop(stores, sets[v], ord),
              "Pop", v, "", NoInput, "")

\* r := v.Clone()
DoClone(v) ==
    /\ pc = "ok" /\ v \in Live
    /\ Finish(IF sets[v].type = "keySet" THEN keySet_Clone(stores, sets[v], "r")
              ELSE keyValueSet_Clone(stores, sets[v], "r"),
              "Clone", v, "", NoInput, "r")

\* r := v.Union(w)
DoUnion(v, w, otherOrd) ==
    /\ pc = "ok" /\ v \in Live /\ w \in Live /\ otherOrd \in Orders(w)
    /\ Finish(IF sets[v].type = "keySet"
              THEN keySet_Union(stores, sets[v], sets[w], otherOrd, "r")
              ELSE keyValueSet_Union(stores, sets[v], sets[w], otherOrd, "r"),
              "Union", v, w, NoInput, "r")

\* r := v.Intersect(w)
DoIntersect(v, w, ord) ==
    /\ pc = "ok" /\ v \in Live /\ w \in Live /\ ord \in Orders(v)
    /\ Finish(IF sets[v].type = "keySet"
              THEN keySet_Intersect(stores, sets[v], sets[w], ord, "r")
              ELSE keyValueSet_Intersect(stores, sets[v], sets[w], ord, "r"),
              "Intersect", v, w, NoInput, "r")

\* r := v.Difference(w)
DoDifference(v, w, ord) ==
    /\ pc = "ok" /\ v \in Live /\ w \in Live /\ ord \in Orders(v)
    /\ Finish(IF sets[v].type = "keySet"
              THEN keySet_Difference(stores, sets[v], sets[w], ord, "r")
              ELSE keyValueSet_Difference(stores, sets[v], sets[w], ord, "r"),
              "Difference", v, w, NoInput, "r")

\* r := v.SymmetricDifference(w)
DoSymmetricDifference(v, w, ord, otherOrd) ==
    /\ pc = "ok" /\ v \in Live /\ w \in Live
    /\ ord \in Orders(v) /\ otherOrd \in Orders(w)
    /\ Finish(IF sets[v].type = "keySet"
              THEN keySet_SymmetricDifference(stores, sets[v], sets[w], ord, otherOrd, "r")
              ELSE keyValueSet_SymmetricDifference(stores, sets[v], sets[w], ord, otherOrd, "r"),
              "SymmetricDifference", v, w, NoInput, "r")

DoIsSubset(v, w) ==
    /\ pc = "ok" /\ v \in Live /\ w \in Live
    /\ Finish(Returned(stores, Set_IsSubset(stores, sets[v], sets[w])),
              "IsSubset", v, w, NoInput, "")

DoIsSuperset(v, w) ==
    /\ pc = "ok" /\ v \in Live /\ w \in Live
    /\ Finish(Returned(stores, IF sets[v].type = "keySet"
                               THEN keySet_IsSuperset(stores, sets[v], sets[w])
                               ELSE keyValueSet_IsSuperset(stores, sets[v], sets[w])),
              "IsSuperset", v, w, NoInput, "")

DoIsProperSuperset(v, w) ==
    /\ pc = "ok" /\ v \in Live /\ w \in Live
    /\ Finish(Returned(stores, IF sets[v].type = "keySet"
                               THEN keySet_IsProperSuperset(stores, sets[v], sets[w])
                               ELSE keyValueSet_IsProperSuperset(stores, sets[v], sets[w])),
              "IsProperSuperset", v, w, NoInput, "")

DoIsProperSubset(v, w) ==
    /\ pc = "ok" /\ v \in Live /\ w \in Live
    /\ Finish(Returned(stores, Set_IsProperSubset(stores, sets[v], sets[w])),
              "IsProperSubset", v, w, NoInput, "")

DoEqual(v, w) ==
    /\ pc = "ok" /\ v \in Live /\ w \in Live
    /\ Finish(Returned(stores, Set_Equal(stores, sets[v], sets[w])),
              "Equal", v, w, NoInput, "")

DoIntersects(v, w) ==
    /\ pc = "ok" /\ v \in Live /\ w \in Live
    /\ Finish(Returned(stores, Set_Intersects(stores, sets[v], sets[w])),
              "Intersects", v, w, NoInput, "")

\* v.Contains(values...) on a key-value set, v.ContainsKeys(keys...) on a key-only set
DoContains(v, values) ==
    /\ pc = "ok" /\ v \in Live
    /\ Finish(IF sets[v].type = "keySet"
              THEN Returned(stores, Set_ContainsKeys(stores, sets[v], values))
              ELSE IF keyValueSet_ContainsPanics(sets[v], values) THEN Panicked(stores)
              ELSE Returned(stores, keyValueSet_Contains(stores, sets[v], values)),
              "Contains", v, "", values, "")

\* v := m.NewKeyValueSet(), m the unsafeMapStore the set held by w was built on
NewOnStore(v, w) ==
    /\ pc = "ok" /\ v \notin Live /\ w \in Live
    /\ sets[w].type = "keyValueSet" /\ StoreOf(w).type = HashMapUnsafe
    /\ Finish(unsafeMapStore_NewKeyValueSet(stores, sets[w].store),
              "NewOnStore", "", w, NoInput, v)

\* one element per call
Singles(type) == {<<x>> : x \in Elems(type)}

\* a program that builds one set and mutates it
Next ==
    \/ \E type \in SetTypes, storeType \in StoreTypeInputs :
          \E values \in Inputs(type) : New("a", type, storeType, values)
    \/ \E v \in Live : \E values \in Inputs(sets[v].type) : DoAppend(v, values)
    \/ \E v \in Live : \E values \in Inputs(sets[v].type) : DoRemove(v, values)
    \/ \E v \in Live : DoClear(v)
    \/ \E v \in Live : \E ord \in Orders(v) : DoPop(v, ord)

Spec == Init /\ [][Next]_vars

\* a program that builds one set, clones it and mutates the set and the clone
NextClone ==
    \/ \E type \in SetTypes, storeType \in StoreTypes :
          \E values \in Inputs(type) : New("a", type, storeType, values)
    \/ \E v \in Live : DoClone(v)
    \/ \E v \in Live : \E values \in Singles(sets[v].type) : DoAppend(v, values)
    \/ \E v \in Live : \E values \in Singles(sets[v].type) : DoRemove(v, values)
    \/ \E v \in Live : DoClear(v)
    \/ \E v \in Live : \E ord \in Orders(v) : DoPop(v, ord)

SpecClone == Init /\ [][NextClone]_vars

\* a program that builds the sets a and b and calls the set-returning methods and
\* the predicates on a, and on their results, with b as the argument
Receivers == Live \ {"b"}
Arguments == Live \cap {"b"}

NextAlgebra ==
    \/ \E v \in {"a", "b"}, type \in SetTypes, storeType \in StoreTypes :
          \E values \in Inputs(type) : New(v, type, storeType, values)
    \/ \E v \in Receivers : DoClone(v)
    \/ \E v \in Receivers, w \in Arguments : \E otherOrd \in Orders(w) :
          DoUnion(v, w, otherOrd)
    \/ \E v \in Receivers, w \in Arguments : \E ord \in Orders(v) :
          DoIntersect(v, w, ord)
    \/ \E v \in Receivers, w \in Arguments : \E ord \in Orders(v) :
          DoDifference(v, w, ord)
    \/ \E v \in Receivers, w \in Arguments : \E ord \in Orders(v), otherOrd \in Orders(w) :
          DoSymmetricDifference(v, w, ord, otherOrd)
    \/ \E v \in Receivers, w \in Arguments : DoIsSubset(v, w)
    \/ \E v \in Receivers, w \in Arguments : DoIsSuperset(v, w)
    \/ \E v \in Receivers, w \in Arguments : DoIsProperSuperset(v, w)
    \/ \E v \in Receivers, w \in Arguments : DoEqual(v, w)
    \/ \E v \in Receivers, w \in Arguments : DoIntersects(v, w)

SpecAlgebra == Init /\ [][NextAlgebra]_vars

\* a program that builds the sets a and b on one kind of store, derives r from a
\* and b, and goes on using b and r
\* the sets the program goes on using: b and the derived set r
Users == Live \ {"a"}

NextDerived ==
    \/ \E v \in {"a", "b"}, type \in SetTypes, storeType \in StoreTypes :
          \E values \in Inputs(type) :
             /\ \A w \in Live : StoreOf(w).type = storeType
             /\ New(v, type, storeType, values)
    \/ \E w \in Live \cap {"a"} : NewOnStore("b", w)
    \/ \E v \in Live \cap {"a"} : DoClone(v)
    \/ \E v \in Live \cap {"a"}, w \in Arguments : \E otherOrd \in Orders(w) :
          DoUnion(v, w, otherOrd)
    \/ \E v \in Live \cap {"a"}, w \in Arguments : \E ord \in Orders(v) :
          DoIntersect(v, w, ord)
    \/ \E v \in Live \cap {"a"}, w \in Arguments : \E ord \in Orders(v) :
          DoDifference(v, w, ord)
    \/ \E v \in Live \cap {"a"}, w \in Arguments :
          \E ord \in Orders(v), otherOrd \in Orders(w) :
             DoSymmetricDifference(v, w, ord, otherOrd)
    \/ \E v \in Users : \E values \in Singles(sets[v].type) : DoAppend(v, values)
    \/ \E v \in Users : \E values \in Singles(sets[v].type) : DoRemove(v, values)
    \/ \E v \in Users : \E values \in Singles(sets[v].type) : DoContains(v, values)
    \/ \E v \in Users : DoClear(v)
    \/ \E v \in Users : \E ord \in Orders(v) : DoPop(v, ord)

SpecDerived == Init /\ [][NextDerived]_vars

\* ------------------------------------------------------ a store on its own
\* the maps a store's underlying map or tree can hold
StoreMaps == UNION {[D -> Values] : D \in SUBSET Keys}
\* a store of any kind around an underlying map or tree, as Clone builds one
StoreStates == {[type |-> t, m |-> m] : t \in StoreTypes, m \in StoreMaps}

InitStore ==
    /\ \E st \in StoreStates : stores = [id \in {"s"} |-> st]
    /\ sets = [v \in {} |-> 0]
    /\ last = [op |-> "start", recv |-> "", arg |-> "", in |-> NoInput,
              ret |-> [end |-> "void"]]
    /\ pc = "ok"
    /\ mutex = <<>>
    /\ threads = <<>>

\* s.Upsert(key, value)
DoUpsert(key, value) ==
    /\ pc = "ok"
    /\ Finish(Returned(Put(stores, "s", StoreUpsert(stores["s"], key, value)), "void"),
              "Upsert", "s", "", <<[key |-> key, value |-> value]>>, "")

\* s.Delete(key)
DoDelete(key) ==
    /\ pc = "ok"
    /\ Finish(Returned(Put(stores, "s", StoreDelete(stores["s"], key)), "void"),
              "Delete", "s", "", <<[key |-> key]>>, "")

NextStore ==
    \/ \E key \in Keys, value \in Values : DoUpsert(key, value)
    \/ \E key \in Keys : DoDelete(key)

SpecStore == InitStore /\ [][NextStore]_vars

\* a program that builds the sets a and b and asks the predicates about them, each
\* set also as its own argument
Built == Live \cap {"a", "b"}

NextPredicates ==
    \/ \E v \in {"a", "b"}, type \in SetTypes, storeType \in StoreTypes :
          \E values \in Inputs(type) : New(v, type, storeType, values)
    \/ \E v \in Built, w \in Built : DoIsSubset(v, w)
    \/ \E v \in Built, w \in Built : DoIsProperSubset(v, w)
    \/ \E v \in Built, w \in Built : DoEqual(v, w)
    \/ \E v \in Built, w \in Built : DoIntersects(v, w)

SpecPredicates == Init /\ [][NextPredicates]_vars

\* ------------------------------------------------- what a caller observes
\* the key a set files an element under: the element itself, or selector(element)
KeyOfElem(type, x) == IF type = "keySet" THEN x ELSE userIDSelector(x)
\* the keys and the entries a traversal of the set held by v yields
KeysOf(v) == DOMAIN StoreOf(v).m
EntriesOf(v) == StoreOf(v).m
LenOf(v) == Set_Len(stores, sets[v])
\* the same once the call has returned
KeysAfter(v) == DOMAIN stores'[sets'[v].store].m
EntriesAfter(v) == stores'[sets'[v].store].m
LenAfter(v) == Set_Len(stores', sets'[v])
OrdersAfter(v) == StoreIterOrders(stores'[sets'[v].store])
\* the keys of a batch of elements handed to the set held by v
BatchKeys(v, in) == {KeyOfElem(sets[v].type, in[i]) : i \in DOMAIN in}
\* the last element of `in` filed under key
LastWith(type, in, key) ==
    in[CHOOSE i \in DOMAIN in :
          /\ KeyOfElem(type, in[i]) = key
          /\ \A j \in DOMAIN in : j > i => KeyOfElem(type, in[j]) # key]
Mutators == {"Append", "Remove", "Clear", "Pop"}

\* ------------------------------------------------------------------ claims
\* C1: Append(x1..xn) returns the number of distinct keys among x1..xn that were not
\* in the set before the call, and Len after the call is Len before plus that count
\* (so a fully-present batch returns 0 and leaves Len unchanged).
C1_AppendReturnsNewKeys ==
    [][last'.op = "Append" =>
          LET v == last'.recv
              new == BatchKeys(v, last'.in) \ KeysOf(v)
          IN /\ pc' = "ok"
             /\ last'.ret.count = Cardinality(new)
             /\ LenAfter(v) = LenOf(v) + Cardinality(new)]_vars

\* C2: in a key-value set, Append(x) with selector(x) already stored replaces the
\* stored value by x, leaves Len and every other entry unchanged and returns 0;
\* every traversal afterwards yields x, and nothing else, for that key.
C2_AppendReplacesValue ==
    [][(/\ last'.op = "Append"
        /\ sets[last'.recv].type = "keyValueSet"
        /\ Len(last'.in) = 1
        /\ userIDSelector(last'.in[1]) \in KeysOf(last'.recv)) =>
          LET v == last'.recv
              x == last'.in[1]
              key == userIDSelector(x)
          IN /\ pc' = "ok"
             /\ last'.ret.count = 0
             /\ LenAfter(v) = LenOf(v)
             /\ KeysAfter(v) = KeysOf(v)
             /\ EntriesAfter(v)[key] = x
             /\ \A other \in KeysOf(v) \ {key} : EntriesAfter(v)[other] = EntriesOf(v)[other]
             /\ \A ord \in OrdersAfter(v) :
                   LET slice == Set_ToSlice(stores', sets'[v], ord)
                   IN /\ \E i \in DOMAIN slice : slice[i] = x
                      /\ \A i \in DOMAIN slice : userIDSelector(slice[i]) = key => slice[i] = x]_vars

\* an Append of one value under a stored key has returned 0 and the value is stored
C2_Witness ==
    /\ pc = "ok" /\ last.op = "Append" /\ Len(last.in) = 1
    /\ sets[last.recv].type = "keyValueSet"
    /\ last.ret.count = 0
    /\ LenOf(last.recv) = 2
    /\ userIDSelector(last.in[1]) \in KeysOf(last.recv)
    /\ EntriesOf(last.recv)[userIDSelector(last.in[1])] = last.in[1]

\* C3: for every store kind, a set constructed from v1..vn holds exactly one entry per
\* distinct key of v1..vn, and the entry of a key is the last supplied value with it.
C3_ConstructionLastWins ==
    (last.op = "New" /\ pc = "ok") =>
        LET v == last.ret.set
            type == sets[v].type
        IN /\ KeysOf(v) = BatchKeys(v, last.in)
           /\ LenOf(v) = Cardinality(BatchKeys(v, last.in))
           /\ \A key \in KeysOf(v) :
                 EntriesOf(v)[key] = IF type = "keySet" THEN Unit
                                     ELSE LastWith(type, last.in, key)

C5_Union ==
    [][last'.op = "Union" =>
          LET A == last'.recv
              B == last'.arg
          IN /\ pc' = "ok"
             /\ KeysAfter(last'.ret.set) = KeysOf(A) \cup KeysOf(B)
             /\ \A key \in KeysOf(A) \cup KeysOf(B) :
                   EntriesAfter(last'.ret.set)[key] =
                       IF key \in KeysOf(B) THEN EntriesOf(B)[key] ELSE EntriesOf(A)[key]]_vars

\* C6: r := A.Intersect(B) holds exactly the keys A and B share, for all A and B,
\* each with the value A stores for it.
C6_Intersect ==
    [][last'.op = "Intersect" =>
          LET A == last'.recv
              B == last'.arg
          IN /\ pc' = "ok"
             /\ KeysAfter(last'.ret.set) = KeysOf(A) \cap KeysOf(B)
             /\ \A key \in KeysOf(A) \cap KeysOf(B) :
                   EntriesAfter(last'.ret.set)[key] = EntriesOf(A)[key]]_vars

\* C7: for key-only sets, r := A.Difference(B) holds exactly the keys of A that are
\* not keys of B, for all A and B.
C7_KeyDifference ==
    [][(last'.op = "Difference" /\ sets[last'.recv].type = "keySet") =>
          /\ pc' = "ok"
          /\ KeysAfter(last'.ret.set) = KeysOf(last'.recv) \ KeysOf(last'.arg)]_vars

\* C8: for key-value sets, r := A.Difference(B) completes for all A and B and holds
\* exactly the values of A whose key is not in B.
C8_KeyValueDifference ==
    [][(last'.op = "Difference" /\ sets[last'.recv].type = "keyValueSet") =>
          LET A == last'.recv
              B == last'.arg
          IN /\ pc' = "ok"
             /\ KeysAfter(last'.ret.set) = KeysOf(A) \ KeysOf(B)
             /\ \A key \in KeysOf(A) \ KeysOf(B) :
                   EntriesAfter(last'.ret.set)[key] = EntriesOf(A)[key]]_vars

\* C9: r := A.SymmetricDifference(B) holds exactly the keys that are in one of A and
\* B and not in the other, each with the value of the operand that has the key.
C9_SymmetricDifference ==
    [][last'.op = "SymmetricDifference" =>
          LET A == last'.recv
              B == last'.arg
              one == (KeysOf(A) \ KeysOf(B)) \cup (KeysOf(B) \ KeysOf(A))
          IN /\ pc' = "ok"
             /\ KeysAfter(last'.ret.set) = one
             /\ \A key \in one :
                   EntriesAfter(last'.ret.set)[key] =
                       IF key \in KeysOf(A) THEN EntriesOf(A)[key] ELSE EntriesOf(B)[key]]_vars

\* C10: A.IsSuperset(B) is true iff every key of B is a key of A, which is what
\* B.IsSubset(A) answers; A.IsProperSuperset(B) is true iff moreover A.Len() > B.Len().
C10_Superset ==
    /\ last.op = "IsSuperset" =>
          /\ last.ret.bool = (KeysOf(last.arg) \subseteq KeysOf(last.recv))
          /\ last.ret.bool = Set_IsSubset(stores, sets[last.arg], sets[last.recv])
    /\ last.op = "IsProperSuperset" =>
          last.ret.bool = (/\ KeysOf(last.arg) \subseteq KeysOf(last.recv)
                           /\ LenOf(last.recv) > LenOf(last.arg))

\* C11: A.IsSubset(B) is true iff every key of A is a key of B, and
\* A.IsProperSubset(B) iff moreover A.Len() < B.Len(); so A.IsSubset(A) is true,
\* A.IsProperSubset(A) is false, and the early return on A.Len() > B.Len() only
\* ever answers false where a key of A is missing from B.
C11_Subset ==
    /\ last.op = "IsSubset" =>
          /\ pc = "ok"
          /\ last.ret.bool = (KeysOf(last.recv) \subseteq KeysOf(last.arg))
          /\ last.recv = last.arg => last.ret.bool
          /\ LenOf(last.recv) > LenOf(last.arg) =>
                ~(KeysOf(last.recv) \subseteq KeysOf(last.arg))
    /\ last.op = "IsProperSubset" =>
          /\ pc = "ok"
          /\ last.ret.bool = (/\ KeysOf(last.recv) \subseteq KeysOf(last.arg)
                              /\ LenOf(last.recv) < LenOf(last.arg))
          /\ last.recv = last.arg => ~last.ret.bool

\* a non-empty set has been found a proper subset of another
C11_Witness ==
    /\ last.op = "IsProperSubset" /\ last.ret.bool
    /\ LenOf(last.recv) > 0

\* C12: A.Equal(B) is true iff A and B hold exactly the same keys (each contains the
\* other), and A.Equal(B) = B.Equal(A).
C12_Equal ==
    last.op = "Equal" =>
        /\ pc = "ok"
        /\ last.ret.bool = (/\ KeysOf(last.recv) \subseteq KeysOf(last.arg)
                            /\ KeysOf(last.arg) \subseteq KeysOf(last.recv))
        /\ last.ret.bool = Set_Equal(stores, sets[last.arg], sets[last.recv])

\* two different set objects holding the same two keys have been found Equal
C12_Witness ==
    /\ last.op = "Equal" /\ last.ret.bool
    /\ last.recv # last.arg
    /\ LenOf(last.recv) = 2

\* C13: A.Intersects(B) is true iff A and B share a key (so false when either is
\* empty), and A.Intersects(B) = B.Intersects(A).
C13_Intersects ==
    last.op = "Intersects" =>
        /\ pc = "ok"
        /\ last.ret.bool = (KeysOf(last.recv) \cap KeysOf(last.arg) # {})
        /\ (LenOf(last.recv) = 0 \/ LenOf(last.arg) = 0) => ~last.ret.bool
        /\ last.ret.bool = Set_Intersects(stores, sets[last.arg], sets[last.recv])

\* two sets with different keys have been found to share one
C13_Witness ==
    /\ last.op = "Intersects" /\ last.ret.bool
    /\ last.recv # last.arg
    /\ KeysOf(last.recv) # KeysOf(last.arg)

\* C14: Pop on an empty set returns (zero value, false) and leaves the set empty; Pop
\* on a non-empty set returns (x, true) with x an element the set held, after which
\* x's key is gone, Len is one less and every other entry is unchanged.
C14_Pop ==
    [][last'.op = "Pop" =>
          LET v == last'.recv
              keySet == sets[v].type = "keySet"
              x == IF keySet THEN last'.ret.key ELSE last'.ret.value
              key == KeyOfElem(sets[v].type, x)
          IN /\ pc' = "ok"
             /\ LenOf(v) = 0 =>
                   /\ ~last'.ret.ok
                   /\ x = IF keySet THEN ZeroKey ELSE ZeroValue
                   /\ LenAfter(v) = 0
             /\ LenOf(v) > 0 =>
                   /\ last'.ret.ok
                   /\ key \in KeysOf(v)
                   /\ keySet \/ EntriesOf(v)[key] = x
                   /\ KeysAfter(v) = KeysOf(v) \ {key}
                   /\ LenAfter(v) = LenOf(v) - 1
                   /\ \A other \in KeysAfter(v) : EntriesAfter(v)[other] = EntriesOf(v)[other]]_vars

C16_Upsert ==
    [][last'.op = "Upsert" =>
          LET key == last'.in[1].key
              value == last'.in[1].value
              before == stores[last'.recv]
              after == stores'[last'.recv]
          IN /\ pc' = "ok"
             /\ StoreContains(after, key)
             /\ StoreGet(after, key) = <<value, TRUE>>
             /\ StoreLen(after) = StoreLen(before) + (IF StoreContains(before, key) THEN 0 ELSE 1)
             /\ \A other \in DOMAIN before.m \ {key} :
                   StoreGet(after, other) = StoreGet(before, other)]_vars

\* what the call op(in) does on a freshly constructed key-value set with the contents
\* of the set held by v and the selector the constructor was given
OnFreshSet(op, v, in) ==
    LET fresh == [sets[v] EXCEPT !.selector = "ID"]
    IN CASE op = "Append" -> keyValueSet_Append(stores, fresh, in)
         [] op = "Remove" -> keyValueSet_Remove(stores, fresh, in)
         [] op = "Contains" -> Returned(stores, keyValueSet_Contains(stores, fresh, in))

\* C17: every key-value set returned by Clone, Union, Intersect, Difference or
\* SymmetricDifference carries the selector: Append(v), Contains(v) and Remove(v) on
\* it complete and do exactly what the same call does on a freshly constructed set
\* with the same contents and selector.
C17_DerivedSelector ==
    [][(/\ last'.op \in {"Append", "Remove", "Contains"}
        /\ last'.recv = "r"
        /\ sets["r"].type = "keyValueSet") =>
          LET expected == OnFreshSet(last'.op, "r", last'.in)
          IN /\ pc' = "ok"
             /\ last'.ret = Result(expected, last'.op, "")
             /\ EntriesAfter("r") = expected.h[sets["r"].store].m]_vars

\* C18: Difference, Intersect and SymmetricDifference called on the result of
\* A.Clone() or A.Union(B) complete and return the mathematically correct set.
C18_ChainOnDerived ==
    [][(/\ pc = "ok"
        /\ last.op \in {"Clone", "Union"}
        /\ last'.op \in {"Difference", "Intersect", "SymmetricDifference"}
        /\ last'.recv = last.ret.set) =>
          LET A == KeysOf(last'.recv)
              C == KeysOf(last'.arg)
          IN /\ pc' = "ok"
             /\ KeysAfter(last'.ret.set) =
                   CASE last'.op = "Difference" -> A \ C
                     [] last'.op = "Intersect" -> A \cap C
                     [] last'.op = "SymmetricDifference" -> (A \ C) \cup (C \ A)]_vars

Readers == {"Clone", "Union", "Intersect", "Difference", "SymmetricDifference",
            "Equal", "IsSubset", "IsSuperset", "IsProperSuperset", "Intersects"}

\* C19: Clone, Union, Intersect, Difference, SymmetricDifference and the predicates
\* never mutate their operands: after the call the receiver and the argument, and
\* every other set but the variable the result is assigned to, hold the entries
\* they held before (whether the call returned or not).
C19_OperandsUntouched ==
    [][last'.op \in Readers =>
          \A w \in Live :
              (pc' = "ok" /\ "set" \in DOMAIN last'.ret /\ last'.ret.set = w)
              \/ (/\ w \in Live'
                  /\ sets'[w] = sets[w]
                  /\ EntriesAfter(w) = EntriesOf(w))]_vars

\* a.Union(b) has returned a set that differs from a, with b non-empty
C19_Witness ==
    /\ pc = "ok" /\ last.op = "Union" /\ last.recv = "a" /\ last.arg = "b"
    /\ LenOf("b") > 0
    /\ KeysOf("r") # KeysOf("a")

\* C20: no two set instances share a store: whatever constructions and set-returning
\* operations came before, an Append, Remove, Clear or Pop on one set instance
\* changes the contents of no other set instance.
C20_NoSharedStore ==
    [][last'.op \in Mutators =>
          \A w \in Live \ {last'.recv} :
              /\ w \in Live'
              /\ EntriesAfter(w) = EntriesOf(w)]_vars

\* ------------------------------------- synchronized sets used by goroutines
\* kset.NewKeyValue and kset.New return a set that keeps an unsynchronized set
\* behind a sync.RWMutex; every method takes the lock and delegates.
MaxThreads == 2
Threads == 1..MaxThreads

\* sync.RWMutex: the read locks held, and the goroutine holding the write lock
NewRWMutex == [readerCount |-> 0, writer |-> 0]
CanRLock(mu) == mu.writer = 0
CanLock(mu) == mu.writer = 0 /\ mu.readerCount = 0
RLock(mu) == [mu EXCEPT !.readerCount = @ + 1]
RUnlock(mu) == [mu EXCEPT !.readerCount = @ - 1]
Lock(mu, t) == [mu EXCEPT !.writer = t]
Unlock(mu) == [mu EXCEPT !.writer = 0]

\* the lock a method of the synchronized set holds around the call it delegates
LockOf_PopShared(op) == IF op \in {"Append", "Clear", "Remove"} THEN "Lock" ELSE "RLock"

LockOf_RemoveShared(op) == IF op \in {"Append", "Clear", "Pop"} THEN "Lock" ELSE "RLock"

LockOf_AppendShared(op) == IF op \in {"Clear", "Pop", "Remove"} THEN "Lock" ELSE "RLock"

LockOf(op) == IF op \in {"Append", "Clear", "Pop", "Remove"} THEN "Lock" ELSE "RLock"

\* the methods that take the read lock and only read the unsynchronized set
OtherReaders ==
    {"Clone", "Contains", "ContainsAnyKey", "ContainsAny", "Intersects", "Difference",
     "Equal", "Intersect", "IsEmpty", "IsProperSubset", "IsProperSuperset", "IsSubset",
     "IsSuperset", "SymmetricDifference", "ToSlice", "Union"}

\* a goroutine: the method it called with its arguments, where it is ("idle",
\* "call": waiting for the lock, "in": inside with the lock held), the locals of
\* the method's body, the outcomes the call has when nothing runs beside it, and
\* the traversal (range over Iter(), or Each) the goroutine is in
Start == [i |-> 0, prevLen |-> 0, ret |-> [end |-> "void"], done |-> FALSE]
NoIter == [kind |-> "", seen |-> {}, held |-> FALSE]
Idle == [op |-> "", in |-> <<>>, at |-> "idle", loc |-> Start, lin |-> {}, iter |-> NoIter]

ValueOfElem(type, x) == IF type = "keySet" THEN Unit ELSE x

\* one access to the map by the body of the unsynchronized set's method: the
\* locals and the map after it
Access(type, op, in, loc, m) ==
    CASE op = "Append" ->
            IF loc.i = 0
            THEN {[loc |-> [loc EXCEPT !.i = 1, !.prevLen = Cardinality(DOMAIN m)], m |-> m]}
            ELSE IF loc.i <= Len(in)
            THEN {[loc |-> [loc EXCEPT !.i = @ + 1],
                   m |-> MapSet(m, KeyOfElem(type, in[loc.i]), ValueOfElem(type, in[loc.i]))]}
            ELSE {[loc |-> [loc EXCEPT !.done = TRUE,
                                       !.ret = [count |-> Cardinality(DOMAIN m) - loc.prevLen]],
                   m |-> m]}
      [] op = "Remove" ->
            IF loc.i < Len(in)
            THEN {[loc |-> [loc EXCEPT !.i = @ + 1], m |-> MapDel(m, KeyOfElem(type, in[loc.i + 1]))]}
            ELSE {[loc |-> [loc EXCEPT !.done = TRUE], m |-> m]}
      [] op = "Clear" ->
            IF DOMAIN m # {}
            THEN {[loc |-> loc, m |-> MapDel(m, key)] : key \in DOMAIN m}
            ELSE {[loc |-> [loc EXCEPT !.done = TRUE], m |-> m]}
      [] op = "Pop" ->
            IF DOMAIN m # {}
            THEN {[loc |-> [loc EXCEPT !.done = TRUE,
                                       !.ret = IF type = "keySet" THEN [key |-> key, ok |-> TRUE]
                                               ELSE [value |-> m[key], ok |-> TRUE]],
                   m |-> MapDel(m, key)] : key \in DOMAIN m}
            ELSE {[loc |-> [loc EXCEPT !.done = TRUE,
                                       !.ret = IF type = "keySet" THEN [key |-> ZeroKey, ok |-> FALSE]
                                               ELSE [value |-> ZeroValue, ok |-> FALSE]],
                   m |-> m]}
      [] op = "Len" ->
            {[loc |-> [loc EXCEPT !.done = TRUE, !.ret = [count |-> Cardinality(DOMAIN m)]], m |-> m]}
      [] op = "ContainsKeys" ->
            IF loc.i < Len(in) /\ in[loc.i + 1] \in DOMAIN m
            THEN {[loc |-> [loc EXCEPT !.i = @ + 1], m |-> m]}
            ELSE {[loc |-> [loc EXCEPT !.done = TRUE, !.ret = [bool |-> loc.i = Len(in)]], m |-> m]}
      [] OTHER -> {[loc |-> [loc EXCEPT !.done = TRUE], m |-> m]}

\* the results and maps the call ends with when it runs to its end on its own
RECURSIVE RunAlone(_, _, _, _, _)
RunAlone(type, op, in, loc, m) ==
    IF loc.done THEN {[ret |-> loc.ret, m |-> m]}
    ELSE UNION {RunAlone(type, op, in, x.loc, x.m) : x \in Access(type, op, in, loc, m)}

\* the synchronized set the goroutines share, and the map of its unsynchronized set
SafeSet == "s"
Data == stores[SafeSet].m

\* s := NewKeyValue(selector, values...) or s := New(values...), then the goroutines start
InitSafe(type) ==
    /\ \E values \in Inputs(type) :
          /\ stores = [id \in {SafeSet} |->
                          IF type = "keySet" THEN NewStoreKey(HashMapUnsafe, values)
                          ELSE NewStoreKeyValue(HashMapUnsafe, values)]
          /\ threads = [t \in Threads |-> Idle]
    /\ sets = [v \in {SafeSet} |->
                  [type |-> type, store |-> SafeSet, newStore |-> <<>>,
                   selector |-> IF type = "keySet" THEN "nil" ELSE "ID"]]
    /\ last = [op |-> "start", recv |-> "", arg |-> "", in |-> NoInput,
              ret |-> [end |-> "void"]]
    /\ pc = "ok"
    /\ mutex = [id \in {SafeSet} |-> NewRWMutex]

\* goroutine t calls s.op(in...)
Call(t, op, in) ==
    /\ pc = "ok" /\ threads[t].at = "idle"
    /\ threads' = [threads EXCEPT ![t] = [@ EXCEPT !.op = op, !.in = in, !.at = "call",
                                                    !.loc = Start]]
    /\ UNCHANGED <<stores, sets, last, pc, mutex>>

\* s.lock.Lock() or s.lock.RLock() returns
Enter(t) ==
    LET th == threads[t]
        mu == mutex[SafeSet]
    IN /\ pc = "ok" /\ th.at = "call"
       /\ IF LockOf(th.op) = "Lock"
          THEN CanLock(mu) /\ mutex' = [mutex EXCEPT ![SafeSet] = Lock(mu, t)]
          ELSE CanRLock(mu) /\ mutex' = [mutex EXCEPT ![SafeSet] = RLock(mu)]
       /\ threads' = [threads EXCEPT ![t] = [@ EXCEPT !.at = "in",
                          !.lin = RunAlone(sets[SafeSet].type, th.op, th.in, Start, Data)]]
       /\ UNCHANGED <<stores, sets, last, pc>>

\* the goroutines inside the critical section of one of the given methods
Inside(ops) == {t \in Threads : threads[t].at = "in" /\ threads[t].op \in ops}

\* goroutine t is in a method's body while another goroutine is in a body or in a
\* traversal that holds no lock, and one of the two writes the map: a data race
Racy(t) ==
    \E u \in Threads \ {t} :
        \/ threads[u].at = "in" /\ {threads[t].op, threads[u].op} \cap Mutators # {}
        \/ threads[u].iter.kind # "" /\ ~threads[u].iter.held /\ threads[t].op \in Mutators

\* the body of s.unsafe.op(in...) reads or writes the map once; in a data race the
\* runtime may also end the program ("concurrent map writes")
Step(t) ==
    LET th == threads[t]
    IN /\ pc = "ok" /\ th.at = "in" /\ ~th.loc.done
       /\ \E x \in Access(sets[SafeSet].type, th.op, th.in, th.loc, Data) :
             /\ threads' = [threads EXCEPT ![t].loc = x.loc]
             /\ stores' = [stores EXCEPT ![SafeSet].m = x.m]
       /\ pc' \in IF Racy(t) THEN {"ok", "fatal"} ELSE {"ok"}
       /\ UNCHANGED <<sets, last, mutex>>

\* the deferred Unlock or RUnlock runs and the call returns threads[t].loc.ret
Leave(t) ==
    LET th == threads[t]
        mu == mutex[SafeSet]
    IN /\ pc = "ok" /\ th.at = "in" /\ th.loc.done
       /\ mutex' = [mutex EXCEPT ![SafeSet] =
                       IF LockOf(th.op) = "Lock" THEN Unlock(mu) ELSE RUnlock(mu)]
       /\ threads' = [threads EXCEPT ![t] = [Idle EXCEPT !.iter = th.iter]]
       /\ UNCHANGED <<stores, sets, last, pc>>

\* goroutines calling the methods of one synchronized key-value set
NextSafe ==
    \E t \in Threads :
        \/ \E values \in Inputs("keyValueSet") : Call(t, "Append", values)
        \/ \E values \in Inputs("keyValueSet") : Call(t, "Remove", values)
        \/ Call(t, "Clear", NoInput)
        \/ Call(t, "Pop", NoInput)
        \/ Call(t, "Len", NoInput)
        \/ \E keys \in Inputs("keySet") : Call(t, "ContainsKeys", keys)
        \/ \E op \in OtherReaders : Call(t, op, NoInput)
        \/ Enter(t)
        \/ Step(t)
        \/ Leave(t)

SpecSafe == InitSafe("keyValueSet") /\ [][NextSafe]_vars

\* s := NewKeyValue(selector, values...); then one goroutine per batch runs
\* s.Append(batch...), the batches having pairwise disjoint keys; goroutine 0 is the
\* one that built the set and handed out the batches
InitAppends ==
    /\ \E values \in Inputs("keyValueSet"), batches \in [Threads -> Inputs("keyValueSet")] :
          /\ \A t, u \in Threads :
                 t # u => Range(Select(batches[t])) \cap Range(Select(batches[u])) = {}
          /\ stores = [id \in {SafeSet} |-> NewStoreKeyValue(HashMapUnsafe, values)]
          /\ threads = [t \in 0..MaxThreads |->
                           IF t = 0 THEN [Idle EXCEPT !.op = "New", !.in = values, !.at = "main"]
                           ELSE [Idle EXCEPT !.op = "Append", !.in = batches[t], !.at = "call"]]
          /\ last = [op |-> "go", recv |-> SafeSet, arg |-> "", in |-> batches,
                    ret |-> [end |-> "void"]]
    /\ sets = [v \in {SafeSet} |->
                  [type |-> "keyValueSet", store |-> SafeSet, newStore |-> <<>>, selector |-> "ID"]]
    /\ pc = "ok"
    /\ mutex = [id \in {SafeSet} |-> NewRWMutex]

NextAppends == \E t \in Threads : Enter(t) \/ Step(t) \/ Leave(t)

SpecAppends == InitAppends /\ [][NextAppends]_vars
\* the scheduler runs a goroutine that can run
FairAppends == SpecAppends /\ WF_vars(NextAppends)

\* the elements a traversal of the map yields, and the keys of those already yielded
Elements(m) ==
    IF sets[SafeSet].type = "keySet" THEN DOMAIN m ELSE {m[key] : key \in DOMAIN m}
SeenKeys(t) == {KeyOfElem(sets[SafeSet].type, x) : x \in threads[t].iter.seen}

\* goroutine t starts `for x := range s.Iter()`: Iter() takes the read lock; the
\* key-value set keeps it for the traversal, the key-only set gives it back when
\* Iter() returns the iterator
IterCall(t) ==
    LET mu == mutex[SafeSet]
        held == sets[SafeSet].type = "keyValueSet"
    IN /\ pc = "ok" /\ threads[t].at = "idle" /\ threads[t].iter.kind = ""
       /\ CanRLock(mu)
       /\ mutex' = [mutex EXCEPT ![SafeSet] = IF held THEN RLock(mu) ELSE RUnlock(RLock(mu))]
       /\ threads' = [threads EXCEPT ![t].iter = [kind |-> "Iter", seen |-> {}, held |-> held]]
       /\ UNCHANGED <<stores, sets, last, pc>>

\* goroutine t calls s.Each(f): the read lock is held while f is called per element
EachCall(t) ==
    LET mu == mutex[SafeSet]
    IN /\ pc = "ok" /\ threads[t].at = "idle" /\ threads[t].iter.kind = ""
       /\ CanRLock(mu)
       /\ mutex' = [mutex EXCEPT ![SafeSet] = RLock(mu)]
       /\ threads' = [threads EXCEPT ![t].iter = [kind |-> "Each", seen |-> {}, held |-> TRUE]]
       /\ UNCHANGED <<stores, sets, last, pc>>

\* the range over the map yields its next element to the loop body or to f; read
\* without the lock while a writer is in its body, the runtime may end the program
Yield(t) ==
    LET th == threads[t]
    IN /\ pc = "ok" /\ th.at = "idle" /\ th.iter.kind # ""
       /\ \E key \in DOMAIN Data \ SeenKeys(t) :
             threads' = [threads EXCEPT ![t].iter.seen =
                            @ \cup {IF sets[SafeSet].type = "keySet" THEN key ELSE Data[key]}]
       /\ pc' \in IF ~th.iter.held /\ Inside(Mutators) \ {t} # {} THEN {"ok", "fatal"} ELSE {"ok"}
       /\ UNCHANGED <<stores, sets, last, mutex>>

\* the traversal ends, the map exhausted or the consumer breaking off (f returning
\* false); a read lock kept for the traversal is released
IterEnd(t) ==
    LET th == threads[t]
        exhausted == DOMAIN Data \ SeenKeys(t) = {}
    IN /\ pc = "ok" /\ th.at = "idle" /\ th.iter.kind # ""
       /\ exhausted \/ th.iter.seen # {}
       /\ mutex' = [mutex EXCEPT ![SafeSet] = IF th.iter.held THEN RUnlock(@) ELSE @]
       /\ threads' = [threads EXCEPT ![t].iter = NoIter]
       /\ last' = [op |-> th.iter.kind, recv |-> SafeSet, arg |-> "", in |-> NoInput,
                   ret |-> [yielded |-> th.iter.seen, exhausted |-> exhausted]]
       /\ UNCHANGED <<stores, sets, pc>>

\* goroutines traversing one synchronized set, key-value or key-only, and calling
\* its methods, also from the loop body of their own traversal
NextIter ==
    \E t \in Threads :
        \/ IterCall(t)
        \/ EachCall(t)
        \/ Yield(t)
        \/ IterEnd(t)
        \/ /\ threads[t].iter.kind # "" => threads[t].iter.seen # {}
           /\ \/ \E in \in Singles(sets[SafeSet].type) : Call(t, "Append", in)
              \/ \E in \in Singles(sets[SafeSet].type) : Call(t, "Remove", in)
              \/ Call(t, "Clear", NoInput)
              \/ Call(t, "Pop", NoInput)
              \/ Call(t, "Len", NoInput)
        \/ Enter(t)
        \/ Step(t)
        \/ Leave(t)

SpecIter == (\E type \in SetTypes : InitSafe(type)) /\ [][NextIter]_vars

\* -------------------------------------------- Pop on a set over any store
\* s := NewKeySet(storeType, values...) or NewKeyValueSet(storeType, selector,
\* values...); the lock-protected stores have a mutex of their own
InitPop ==
    /\ \E type \in SetTypes, storeType \in StoreTypes : \E values \in Inputs(type) :
          LET out == IF type = "keySet" THEN NewKeySet(<<>>, storeType, values, SafeSet)
                     ELSE NewKeyValueSet(<<>>, storeType, values, SafeSet)
          IN /\ stores = out.h
             /\ sets = [v \in {SafeSet} |-> out.ret]
    /\ threads = [t \in Threads |-> Idle]
    /\ last = [op |-> "start", recv |-> "", arg |-> "", in |-> NoInput,
              ret |-> [end |-> "void"]]
    /\ pc = "ok"
    /\ mutex = [id \in {SafeSet} |-> NewRWMutex]

\* goroutine t calls s.Pop()
PopCall(t) ==
    /\ pc = "ok" /\ threads[t].at = "idle"
    /\ threads' = [threads EXCEPT ![t] = [Idle EXCEPT !.op = "Pop", !.at = "Iter"]]
    /\ UNCHANGED <<stores, sets, last, pc, mutex>>

\* `for key, value := range store.Iter()`: the iterator of a lock-protected store
\* takes mutex.RLock; on an empty store it ends, releases it, and Pop returns the
\* zero value; otherwise it yields the first element to the loop body
PopIter(t) ==
    LET st == stores[SafeSet]
        locked == st.type \in LockedStoreTypes
        keySet == sets[SafeSet].type = "keySet"
    IN /\ pc = "ok" /\ threads[t].at = "Iter"
       /\ locked => CanRLock(mutex[SafeSet])
       /\ \E ord \in StoreIterOrders(st) :
             IF ord = <<>>
             THEN /\ threads' = [threads EXCEPT ![t] = Idle]
                  /\ last' = [op |-> "Pop", recv |-> SafeSet, arg |-> "", in |-> NoInput,
                              ret |-> IF keySet THEN [key |-> ZeroKey, ok |-> FALSE]
                                      ELSE [value |-> ZeroValue, ok |-> FALSE]]
                  /\ UNCHANGED mutex
             ELSE /\ threads' = [threads EXCEPT ![t] = [@ EXCEPT !.at = "Delete",
                                     !.loc.ret = IF keySet THEN [key |-> ord[1], ok |-> TRUE]
                                                 ELSE [value |-> st.m[ord[1]], ok |-> TRUE]]]
                  /\ mutex' = [mutex EXCEPT ![SafeSet] = IF locked THEN RLock(@) ELSE @]
                  /\ UNCHANGED last
       /\ UNCHANGED <<stores, sets, pc>>

\* the loop body: store.Delete(key), which on a lock-protected store takes
\* mutex.Lock first; then `return`, which ends the iterator (its deferred RUnlock runs)
PopDelete(t) ==
    LET st == stores[SafeSet]
        locked == st.type \in LockedStoreTypes
        ret == threads[t].loc.ret
        key == IF sets[SafeSet].type = "keySet" THEN ret.key ELSE userIDSelector(ret.value)
    IN /\ pc = "ok" /\ threads[t].at = "Delete"
       /\ locked => CanLock(mutex[SafeSet])
       /\ stores' = [stores EXCEPT ![SafeSet] = StoreDelete(st, key)]
       /\ mutex' = [mutex EXCEPT ![SafeSet] = IF locked THEN RUnlock(Unlock(Lock(@, t))) ELSE @]
       /\ threads' = [threads EXCEPT ![t] = Idle]
       /\ last' = [op |-> "Pop", recv |-> SafeSet, arg |-> "", in |-> NoInput, ret |-> ret]
       /\ UNCHANGED <<sets, pc>>

PopStep(t) == PopIter(t) \/ PopDelete(t)

\* one goroutine calls Pop, again and again; nothing else uses the set
NextPop == PopCall(1) \/ PopStep(1)

SpecPop == InitPop /\ [][NextPop]_vars
\* a goroutine that can take its next step takes it
FairPop == SpecPop /\ WF_vars(PopStep(1))

ReadOps == OtherReaders \cup {"Len", "ContainsKeys"}

\* C21: on a synchronized set, at every instant either at most one of
\* Append/Clear/Remove/Pop is inside its critical section and no reader is, or
\* only reader operations are inside (any number of them).
C21_ReadersOrOneWriter ==
    \/ Cardinality(Inside(Mutators)) = 1 /\ Inside(ReadOps) = {}
    \/ Inside(Mutators) = {}

\* two different reader operations are inside at the same time
C21_Witness ==
    /\ Cardinality(Inside(ReadOps)) = 2
    /\ \E t, u \in Inside(ReadOps) : threads[t].op = "Len" /\ threads[u].op = "Clone"

\* the keys of the values the set was built from, and of the batches appended
BuiltKeys == Range(Select(threads[0].in))
AppendedKeys == UNION {Range(Select(last.in[t])) : t \in Threads}
AllReturned == \A t \in Threads : threads[t].at = "idle"

\* C22: no lost updates: when goroutines concurrently call Append with pairwise
\* disjoint key sets on the same synchronized set, every call returns, and once all
\* have returned Len is the initial Len plus the number of distinct new keys
\* appended and every appended key is contained.
C22_NoLostUpdates ==
    /\ <>AllReturned
    /\ [](AllReturned =>
             /\ Set_Len(stores, sets[SafeSet])
                    = Cardinality(BuiltKeys) + Cardinality(AppendedKeys \ BuiltKeys)
             /\ \A key \in AppendedKeys : Set_ContainsKeys(stores, sets[SafeSet], <<key>>))

\* both goroutines appended a new key to a set that held none, and both returned
C22_Witness ==
    /\ AllReturned
    /\ BuiltKeys = {}
    /\ \A t \in Threads : Range(Select(last.in[t])) # {}
    /\ Data \in [Keys -> Values]

\* goroutine t is in a traversal that has yielded its first element
Traversing(t) == threads[t].iter.kind # "" /\ threads[t].iter.seen # {}

\* C23: Iter and Each on a synchronized set hold the reader lock for the whole
\* traversal: from the first element yielded to the traversal's end no Append,
\* Clear, Remove or Pop of another goroutine takes effect on the set, and a
\* traversal that runs to exhaustion has yielded exactly the elements of the set.
C23_TraversalSnapshot ==
    [][\A t \in Threads :
          /\ Traversing(t) /\ Data' # Data => Inside(Mutators) \subseteq {t}
          /\ (threads[t].iter.kind # "" /\ threads'[t].iter.kind = "" /\ last'.ret.exhausted)
                => last'.ret.yielded = Elements(Data)]_vars

\* goroutine t called a mutating method from inside its own traversal and waits
Stuck(t) ==
    /\ threads[t].iter.kind # ""
    /\ threads[t].at = "call"
    /\ threads[t].op \in Mutators

\* C24: a goroutine that is inside an Iter or Each traversal of a synchronized set
\* and calls Append, Remove, Clear or Pop on the same set blocks forever: the call
\* never gets the lock and the traversal never ends.
C24_SelfDeadlock ==
    [][\A t \in Threads : Stuck(t) => Stuck(t)']_vars

\* C25: Pop on a non-empty set over a lock-protected store (HashMap or TreeMap),
\* called while nothing else uses the set, always returns: iterating and deleting
\* inside the iteration does not deadlock on the store's own lock.
C25_PopReturns ==
    (threads[1].op = "Pop" /\ threads[1].at # "idle") ~> (threads[1].at = "idle")

\* C26: operations on one synchronized set are linearizable: in every concurrent
\* execution of Append, Remove, Clear, Pop, Len and ContainsKeys each call returns
\* the result, and leaves the contents, that the call run on its own has on the
\* contents found when it got the lock, a point between its call and its return.
C26_Linearizable ==
    [][\A t \in Threads :
          (threads[t].at = "in" /\ threads'[t].at = "idle")
              => [ret |-> threads[t].loc.ret, m |-> Data'] \in threads[t].lin]_vars

\* an Append has written its first value while a Pop called by the other goroutine
\* waits for the lock
C26_Witness ==
    \E t, u \in Threads :
        /\ threads[t].at = "in" /\ threads[t].op = "Append" /\ threads[t].loc.i = 2
        /\ Len(threads[t].in) = 2
        /\ threads[u].at = "call" /\ threads[u].op = "Pop"

\* C27: constructing a key-only or key-value set with a store kind other than
\* HashMap, HashMapUnsafe, TreeMap or TreeMapUnsafe (StoreTypeUndefined, or a value
\* out of range) panics inside the constructor: no set and no store comes to
\* exist, and the program takes no further step.
C27_UnsupportedKindPanics ==
    [][/\ (last'.op = "New" /\ last'.arg \notin Range(storeTypeString))
            => /\ pc' = "panic"
               /\ last'.ret = [end |-> "panic"]
               /\ sets' = sets /\ stores' = stores
       /\ pc # "panic"]_vars

\* a constructor call with the undefined store kind has panicked
C27_Witness ==
    /\ pc = "panic"
    /\ last.op = "New" /\ last.arg = "invalid(0)" /\ last.in # <<>>
    /\ Live = {}

Intersect(h, k, other, ord, fresh) ==
    IF k.type = "keySet" THEN keySet_Intersect(h, k, other, ord, fresh)
    ELSE keyValueSet_Intersect(h, k, other, ord, fresh)

\* what v.Intersect(w) gives when it is called in the state a step leads to, the
\* receiver's store walked in the order ord
IntersectAfter(v, w, ord) ==
    IF sets'[v].type = "keySet"
    THEN keySet_Intersect(stores', sets'[v], sets'[w], ord, "i")
    ELSE keyValueSet_Intersect(stores', sets'[v], sets'[w], ord, "i")

\* C29: inclusion-exclusion: for all sets A and B over the same key type,
\* A.Union(B).Len() == A.Len() + B.Len() - A.Intersect(B).Len(); the three calls
\* return and the two sides are equal.
C29_InclusionExclusion ==
    [][last'.op = "Union" =>
          LET A == last'.recv
              B == last'.arg
          IN /\ pc' = "ok"
             /\ \A ord \in Orders(A) :
                   LET intersection == Intersect(stores, sets[A], sets[B], ord, "i")
                   IN /\ intersection.status = "ok"
                      /\ LenAfter(last'.ret.set) =
                            LenOf(A) + LenOf(B)
                                - Set_Len(intersection.h, intersection.ret)]_vars

\* C30: for all sets A and B over the same key type, A.Difference(B).Intersect(B)
\* completes, and IsEmpty() on the result is true.
C30_DifferenceDisjoint ==
    [][last'.op = "Difference" =>
          /\ pc' = "ok"
          /\ \A ord \in OrdersAfter(last'.ret.set) :
                LET intersection == IntersectAfter(last'.ret.set, last'.arg, ord)
                IN /\ intersection.status = "ok"
                   /\ Set_IsEmpty(intersection.h, intersection.ret)]_vars

\* the set-returning methods, dispatched on the receiver's type, in a heap h
Difference(h, k, other, ord, fresh) ==
    IF k.type = "keySet" THEN keySet_Difference(h, k, other, ord, fresh)
    ELSE keyValueSet_Difference(h, k, other, ord, fresh)

Union(h, k, other, otherOrd, fresh) ==
    IF k.type = "keySet" THEN keySet_Union(h, k, other, otherOrd, fresh)
    ELSE keyValueSet_Union(h, k, other, otherOrd, fresh)

SymmetricDifference(h, k, other, ord, otherOrd, fresh) ==
    IF k.type = "keySet" THEN keySet_SymmetricDifference(h, k, other, ord, otherOrd, fresh)
    ELSE keyValueSet_SymmetricDifference(h, k, other, ord, otherOrd, fresh)

\* the entries of the set a call returned
Returns(out) == out.h[out.ret.store].m

\* A.Difference(B).Union(B.Difference(A)) has the entries m, whatever the order
\* the stores are walked in
DifferencesUnionIs(h, A, B, m) ==
    \A ordA \in StoreIterOrders(h[A.store]), ordB \in StoreIterOrders(h[B.store]) :
        LET left == Difference(h, A, B, ordA, "d1")
        IN /\ left.status = "ok"
           /\ LET right == Difference(left.h, B, A, ordB, "d2")
              IN /\ right.status = "ok"
                 /\ \A ord \in StoreIterOrders(right.h[right.ret.store]) :
                       LET union == Union(right.h, left.ret, right.ret, ord, "u")
                       IN union.status = "ok" /\ Returns(union) = m

\* C31: for all sets A and B over the same key type, A.SymmetricDifference(B) has
\* exactly the elements of A.Difference(B).Union(B.Difference(A)), and the same
\* keys as B.SymmetricDifference(A); all of these calls return.
C31_SymmetricDifferenceLaws ==
    [][last'.op = "SymmetricDifference" =>
          LET A == sets[last'.recv]
              B == sets[last'.arg]
          IN /\ pc' = "ok"
             /\ DifferencesUnionIs(stores, A, B, EntriesAfter(last'.ret.set))
             /\ \A ordA \in Orders(last'.recv), ordB \in Orders(last'.arg) :
                   LET swapped == SymmetricDifference(stores, B, A, ordB, ordA, "s")
                   IN /\ swapped.status = "ok"
                      /\ DOMAIN Returns(swapped) = KeysAfter(last'.ret.set)]_vars

\* ------------------------------- a binary method on two synchronized sets
\* the receiver a and the argument b, both from NewKeyValue, over one more key than
\* the other specifications use
PairKeys == 1..(MaxKey + 1)
PairA == "a"
PairB == "b"
UserOf(key) == [ID |-> key, Name |-> "Alice"]
KeysIn(v) == DOMAIN stores[v].m

\* what s.Equal(other) and s.IsSubset(other) are specified to answer
Holds(op, A, B) == IF op = "Equal" THEN A = B ELSE A \subseteq B

\* the locals of unsafeKeyValueSet.Equal / IsSubset: the keys the range over k.data
\* has still to yield, the result; `held` records whether the answer was true of
\* the two sets in some state since the call took its lock
PairStart(op) ==
    [todo |-> <<>>, ranging |-> FALSE, ret |-> [end |-> "void"], done |-> FALSE,
     held |-> Holds(op, KeysIn(PairA), KeysIn(PairB))]

InitPair ==
    /\ \E A \in SUBSET PairKeys, B \in SUBSET PairKeys :
          stores = (PairA :> [type |-> HashMapUnsafe, m |-> [key \in A |-> UserOf(key)]])
                      @@ (PairB :> [type |-> HashMapUnsafe, m |-> [key \in B |-> UserOf(key)]])
    /\ sets = [v \in {PairA, PairB} |->
                  [type |-> "keyValueSet", store |-> v, newStore |-> <<>>, selector |-> "ID"]]
    /\ last = [op |-> "start", recv |-> "", arg |-> "", in |-> NoInput,
              ret |-> [end |-> "void"]]
    /\ pc = "ok"
    /\ mutex = [id \in {PairA, PairB} |-> NewRWMutex]
    /\ threads = [t \in Threads |-> Idle]

\* goroutine t calls a.Equal(b) or a.IsSubset(b)
PairCall(t, op) ==
    /\ pc = "ok" /\ threads[t].at = "idle"
    /\ threads' = [threads EXCEPT ![t] = [Idle EXCEPT !.op = op, !.at = "call"]]
    /\ UNCHANGED <<stores, sets, last, pc, mutex>>

\* an Equal that also takes the argument's read lock for the whole call
PairEnter_BothLocks(t) ==
    /\ pc = "ok" /\ threads[t].at = "call"
    /\ CanRLock(mutex[PairA]) /\ CanRLock(mutex[PairB])
    /\ mutex' = [mutex EXCEPT ![PairA] = RLock(@), ![PairB] = RLock(@)]
    /\ threads' = [threads EXCEPT ![t] = [@ EXCEPT !.at = "in", !.loc = PairStart(threads[t].op)]]
    /\ UNCHANGED <<stores, sets, last, pc>>

\* s.lock.RLock() of the receiver returns
PairEnter(t) ==
    /\ pc = "ok" /\ threads[t].at = "call"
    /\ CanRLock(mutex[PairA])
    /\ mutex' = [mutex EXCEPT ![PairA] = RLock(@)]
    /\ threads' = [threads EXCEPT ![t] = [@ EXCEPT !.at = "in", !.loc = PairStart(threads[t].op)]]
    /\ UNCHANGED <<stores, sets, last, pc>>

\* if k.Len() != other.Len() (Equal) or k.Len() > other.Len() (IsSubset) return
\* false; other.Len() takes and gives back the argument's read lock. Then the range
\* over k.data starts, in one of the orders a Go map may be walked in
PairLen(t) ==
    LET th == threads[t]
        mine == Cardinality(KeysIn(PairA))
        theirs == Cardinality(KeysIn(PairB))
        differ == IF th.op = "Equal" THEN mine # theirs ELSE mine > theirs
    IN /\ pc = "ok" /\ th.at = "in" /\ ~th.loc.done /\ ~th.loc.ranging
       /\ CanRLock(mutex[PairB])
       /\ \E ord \in Perms(KeysIn(PairA)) :
             threads' = [threads EXCEPT ![t].loc =
                            IF differ THEN [@ EXCEPT !.done = TRUE, !.ret = [bool |-> FALSE]]
                            ELSE IF ord = <<>> THEN [@ EXCEPT !.done = TRUE, !.ret = [bool |-> TRUE]]
                            ELSE [@ EXCEPT !.ranging = TRUE, !.todo = ord]]
       /\ UNCHANGED <<stores, sets, last, pc, mutex>>

\* if !other.ContainsKeys(key) { return false } for the next key of the range;
\* ContainsKeys takes and gives back the argument's read lock
PairContains(t) ==
    LET th == threads[t]
    IN /\ pc = "ok" /\ th.at = "in" /\ ~th.loc.done /\ th.loc.ranging
       /\ CanRLock(mutex[PairB])
       /\ threads' = [threads EXCEPT ![t].loc =
                         IF Head(th.loc.todo) \notin KeysIn(PairB)
                         THEN [@ EXCEPT !.done = TRUE, !.ret = [bool |-> FALSE]]
                         ELSE IF Tail(th.loc.todo) = <<>>
                         THEN [@ EXCEPT !.done = TRUE, !.ret = [bool |-> TRUE], !.todo = <<>>]
                         ELSE [@ EXCEPT !.todo = Tail(@)]]
       /\ UNCHANGED <<stores, sets, last, pc, mutex>>

\* the deferred s.lock.RUnlock() runs and the call returns
PairLeave(t) ==
    LET th == threads[t]
    IN /\ pc = "ok" /\ th.at = "in" /\ th.loc.done
       /\ mutex' = [mutex EXCEPT ![PairA] = RUnlock(@)]
       /\ threads' = [threads EXCEPT ![t] = Idle]
       /\ last' = [op |-> th.op, recv |-> PairA, arg |-> PairB, in |-> NoInput,
                   ret |-> [bool |-> th.loc.ret.bool, held |-> th.loc.held]]
       /\ UNCHANGED <<stores, sets, pc>>

\* another goroutine runs b.Append(User{key}) or b.Remove(User{key}) from Lock() to
\* Unlock(); the calls that are inside Equal or IsSubset note whether their answer
\* is true of the two sets now
PairMutate(t, op, key) ==
    LET m == IF op = "Append" THEN MapSet(stores[PairB].m, key, UserOf(key))
             ELSE MapDel(stores[PairB].m, key)
    IN /\ pc = "ok" /\ threads[t].at = "idle"
       /\ CanLock(mutex[PairB])
       /\ stores' = [stores EXCEPT ![PairB].m = m]
       /\ threads' = [u \in Threads |->
                         IF threads[u].at = "in"
                         THEN [threads[u] EXCEPT !.loc.held =
                                  @ \/ Holds(threads[u].op, KeysIn(PairA), DOMAIN m)]
                         ELSE threads[u]]
       /\ UNCHANGED <<sets, last, pc, mutex>>

NextPair ==
    \/ \E op \in {"Equal", "IsSubset"} : PairCall(1, op)
    \/ PairEnter(1)
    \/ PairLen(1)
    \/ PairContains(1)
    \/ PairLeave(1)
    \/ \E op \in {"Append", "Remove"}, key \in PairKeys : PairMutate(2, op, key)

SpecPair == InitPair /\ [][NextPair]_vars

\* C32: a.Equal(b) and a.IsSubset(b) hold only a's lock while they run: between
\* their reads of b (Len, then ContainsKeys per key) b's lock is free, a writer on b
\* can proceed, and so the call can return true although a and b did not satisfy
\* the predicate in any state they were in together during the call.
C32_OnlyReceiverLocked ==
    \A t \in Threads :
        threads[t].at = "in" =>
            /\ mutex[PairA].readerCount >= 1 /\ ~CanLock(mutex[PairA])
            /\ mutex[PairB] = NewRWMutex /\ CanLock(mutex[PairB])

\* Equal has returned true, and a and b were never equal during the call
C32_Witness ==
    /\ last.op = "Equal" /\ last.ret.bool /\ ~last.ret.held
    /\ KeysIn(PairA) # {}

\* C33: Difference, Intersect and SymmetricDifference on a key-only set created
\* with TreeMap or TreeMapUnsafe return a set on a store of the receiver's kind:
\* traversing the result yields its keys in ascending order only, and the sets
\* derived from the result are built on that kind of store too.
C33_DerivedKeepsTree ==
    [][(/\ last'.op \in {"Difference", "Intersect", "SymmetricDifference"}
        /\ last'.recv = "a"
        /\ sets["a"].type = "keySet"
        /\ StoreOf("a").type \in TreeStoreTypes)
          => /\ pc' = "ok"
             /\ stores'[sets'[last'.ret.set].store].type = StoreOf("a").type
             /\ OrdersAfter(last'.ret.set) = {Ascending(KeysAfter(last'.ret.set))}
             /\ sets'[last'.ret.set].newStore = <<StoreOf("a").type>>]_vars

\* ------------------- goroutines on a key-only set over a lock-protected store
\* the calls the goroutines make in all
MaxCalls == 3

\* s := HashMapKey(keys...): a keySet over a safeMapStore, whose mutex is the only
\* lock; `last` keeps the constructor's keys and what the calls returned so far
InitLocked ==
    /\ \E keys \in Inputs("keySet") :
          /\ stores = [id \in {SafeSet} |-> NewStoreKey(HashMap, keys)]
          /\ last = [op |-> "New", recv |-> SafeSet, arg |-> "", in |-> keys,
                    ret |-> [returned |-> <<>>]]
    /\ sets = [v \in {SafeSet} |->
                  [type |-> "keySet", store |-> SafeSet, newStore |-> <<>>, selector |-> "nil"]]
    /\ threads = [t \in Threads |-> Idle]
    /\ pc = "ok"
    /\ mutex = [id \in {SafeSet} |-> NewRWMutex]

\* the calls made so far: those that returned and those still running
Calls == Len(last.ret.returned) + Cardinality({t \in Threads : threads[t].at # "idle"})

\* goroutine t calls s.Pop()
PopsCall(t) ==
    /\ pc = "ok" /\ threads[t].at = "idle" /\ Calls < MaxCalls
    /\ threads' = [threads EXCEPT ![t] = [Idle EXCEPT !.op = "Pop", !.at = "Iter"]]
    /\ UNCHANGED <<stores, sets, last, pc, mutex>>

\* for key := range k.store.Iter() { defer k.store.Delete(key); return key, true }:
\* the iterator takes mutex.RLock, yields the first key of the map, the body's
\* return ends the iterator and mutex.RUnlock runs; on an empty map Pop returns
\* (zero, false)
PopsIter(t) ==
    /\ pc = "ok" /\ threads[t].at = "Iter"
    /\ CanRLock(mutex[SafeSet])
    /\ IF DOMAIN Data = {}
       THEN /\ threads' = [threads EXCEPT ![t] = Idle]
            /\ last' = [last EXCEPT !.op = "Pop", !.ret.returned =
                            Append(@, [key |-> ZeroKey, ok |-> FALSE])]
       ELSE /\ \E key \in DOMAIN Data :
                  threads' = [threads EXCEPT ![t] =
                                 [@ EXCEPT !.at = "Delete", !.loc.ret = [key |-> key, ok |-> TRUE]]]
            /\ UNCHANGED last
    /\ UNCHANGED <<stores, sets, pc, mutex>>

\* the deferred k.store.Delete(key) runs under mutex.Lock, and Pop returns (key, true)
PopsDelete(t) ==
    /\ pc = "ok" /\ threads[t].at = "Delete"
    /\ CanLock(mutex[SafeSet])
    /\ stores' = [stores EXCEPT ![SafeSet] = StoreDelete(@, threads[t].loc.ret.key)]
    /\ threads' = [threads EXCEPT ![t] = Idle]
    /\ last' = [last EXCEPT !.op = "Pop", !.ret.returned = Append(@, threads[t].loc.ret)]
    /\ UNCHANGED <<sets, pc, mutex>>

\* only Pops run
NextPops == \E t \in Threads : PopsCall(t) \/ PopsIter(t) \/ PopsDelete(t)

SpecPops == InitLocked /\ [][NextPops]_vars

\* the results of the Pops that found an element
Found == SelectSeq(last.ret.returned, LAMBDA r : r.ok)

\* C34: on a key-only set over a lock-protected store, with only Pops running, no
\* two successful Pops return the same key, and once every Pop has returned the
\* number of Pops that returned found = true is the number of elements removed.
C34_PopsDistinct ==
    /\ \A i, j \in DOMAIN Found : i # j => Found[i].key # Found[j].key
    /\ (\A t \in Threads : threads[t].at = "idle")
          => Len(Found) = Cardinality(Range(last.in)) - Cardinality(DOMAIN Data)

\* the keys the set was built with, and those of the batches appended or being appended
Batched ==
    Range(last.in)
        \cup UNION {Range(last.ret.returned[i].in) : i \in DOMAIN last.ret.returned}
        \cup UNION {Range(threads[t].in) : t \in Threads}

\* goroutine t calls s.Append(batch...) with keys no one else has or appends
AppendsCall(t, batch) ==
    /\ pc = "ok" /\ threads[t].at = "idle" /\ Calls < MaxCalls
    /\ batch # <<>> /\ Range(batch) \cap Batched = {}
    /\ threads' = [threads EXCEPT ![t] =
                      [Idle EXCEPT !.op = "Append", !.in = batch, !.at = "Len"]]
    /\ UNCHANGED <<stores, sets, last, pc, mutex>>

\* prevLen := k.store.Len(), under mutex.RLock
AppendsLen(t) ==
    /\ pc = "ok" /\ threads[t].at = "Len"
    /\ CanRLock(mutex[SafeSet])
    /\ threads' = [threads EXCEPT ![t] =
                      [@ EXCEPT !.at = "Upsert", !.loc.prevLen = StoreLen(stores[SafeSet])]]
    /\ UNCHANGED <<stores, sets, last, pc, mutex>>

\* k.store.Upsert(key, empty{}) for the next key of the batch, under mutex.Lock
AppendsUpsert(t) ==
    LET th == threads[t]
    IN /\ pc = "ok" /\ th.at = "Upsert" /\ th.loc.i < Len(th.in)
       /\ CanLock(mutex[SafeSet])
       /\ stores' = [stores EXCEPT ![SafeSet] = StoreUpsert(@, th.in[th.loc.i + 1], Unit)]
       /\ threads' = [threads EXCEPT ![t].loc.i = @ + 1]
       /\ UNCHANGED <<sets, last, pc, mutex>>

\* return k.store.Len() - prevLen, the Len read under mutex.RLock
AppendsReturn(t) ==
    LET th == threads[t]
    IN /\ pc = "ok" /\ th.at = "Upsert" /\ th.loc.i = Len(th.in)
       /\ CanRLock(mutex[SafeSet])
       /\ threads' = [threads EXCEPT ![t] = Idle]
       /\ last' = [last EXCEPT !.op = "Append", !.ret.returned =
                       Append(@, [count |-> StoreLen(stores[SafeSet]) - th.loc.prevLen,
                                  in |-> th.in])]
       /\ UNCHANGED <<stores, sets, pc, mutex>>

\* only Appends run, each with keys of its own
NextLockedAppends ==
    \E t \in Threads :
        \/ \E batch \in Inputs("keySet") : AppendsCall(t, batch)
        \/ AppendsLen(t)
        \/ AppendsUpsert(t)
        \/ AppendsReturn(t)

SpecLockedAppends == InitLocked /\ [][NextLockedAppends]_vars

RECURSIVE SumCounts(_)
SumCounts(returned) ==
    IF returned = <<>> THEN 0 ELSE Head(returned).count + SumCounts(Tail(returned))

\* C35: on a set over a lock-protected store, concurrent Appends with pairwise
\* disjoint batches of new keys each return the number of keys that call inserted:
\* never negative, never more than the batch, and once all have returned the
\* counts sum to the increase of Len.
C35_AppendCounts ==
    /\ \A i \in DOMAIN last.ret.returned :
          LET r == last.ret.returned[i]
          IN /\ r.count = Cardinality(Range(r.in))
             /\ r.count >= 0 /\ r.count <= Len(r.in)
    /\ (\A t \in Threads : threads[t].at = "idle")
          => SumCounts(last.ret.returned) =
                StoreLen(stores[SafeSet]) - Cardinality(Range(last.in))

\* ------------------------- safeMapStore.Clone beside the store's writers
\* sync.RWMutex as Go implements it: a goroutine blocked in Lock() keeps later
\* RLock() calls from returning until it has had the lock
Pending == {t \in Threads : threads[t].at = "Lock"}
CanRLockGo(mu) == CanRLock(mu) /\ Pending = {}

\* the copy Clone returns
CloneStore == "c"

\* goroutine t calls m.Clone()
CloneCall(t) ==
    /\ pc = "ok" /\ threads[t].at = "idle"
    /\ threads' = [threads EXCEPT ![t] = [Idle EXCEPT !.op = "Clone", !.at = "RLock"]]
    /\ UNCHANGED <<stores, sets, last, pc, mutex>>

\* m.mutex.RLock() returns; defer m.mutex.RUnlock()
CloneRLock(t) ==
    /\ pc = "ok" /\ threads[t].at = "RLock"
    /\ CanRLockGo(mutex[SafeSet])
    /\ mutex' = [mutex EXCEPT ![SafeSet] = RLock(@)]
    /\ threads' = [threads EXCEPT ![t].at = "Len"]
    /\ UNCHANGED <<stores, sets, last, pc>>

\* make(map[Key]Value, m.Len()): Len takes m.mutex.RLock() once more, reads, and
\* gives it back
CloneLen(t) ==
    /\ pc = "ok" /\ threads[t].at = "Len"
    /\ CanRLockGo(mutex[SafeSet])
    /\ threads' = [threads EXCEPT ![t] =
                      [@ EXCEPT !.at = "Copy", !.loc.prevLen = StoreLen(stores[SafeSet])]]
    /\ UNCHANGED <<stores, sets, last, pc, mutex>>

\* every entry is upserted into the new store, the deferred RUnlock runs and
\* Clone returns the new store
CloneReturn(t) ==
    /\ pc = "ok" /\ threads[t].at = "Copy"
    /\ stores' = Put(stores, CloneStore, StoreClone(stores[SafeSet]))
    /\ mutex' = [mutex EXCEPT ![SafeSet] = RUnlock(@)]
    /\ threads' = [threads EXCEPT ![t] = Idle]
    /\ last' = [last EXCEPT !.op = "Clone"]
    /\ UNCHANGED <<sets, pc>>

\* goroutine t calls m.Upsert(key, value), m.Delete(key) or m.Clear(), whose first
\* statement is m.mutex.Lock()
WriteCall(t, op, key) ==
    /\ pc = "ok" /\ threads[t].at = "idle"
    /\ threads' = [threads EXCEPT ![t] = [Idle EXCEPT !.op = op, !.in = <<key>>, !.at = "Lock"]]
    /\ UNCHANGED <<stores, sets, last, pc, mutex>>

\* m.mutex.Lock() returns
WriteLock(t) ==
    /\ pc = "ok" /\ threads[t].at = "Lock"
    /\ CanLock(mutex[SafeSet])
    /\ mutex' = [mutex EXCEPT ![SafeSet] = Lock(@, t)]
    /\ threads' = [threads EXCEPT ![t].at = "in"]
    /\ UNCHANGED <<stores, sets, last, pc>>

\* the map is written, the deferred Unlock runs and the call returns
WriteReturn(t) ==
    LET th == threads[t]
        st == stores[SafeSet]
    IN /\ pc = "ok" /\ th.at = "in"
       /\ stores' = [stores EXCEPT ![SafeSet] =
                        CASE th.op = "Upsert" -> safeMapStore_Upsert(st, th.in[1], Unit)
                          [] th.op = "Delete" -> safeMapStore_Delete(st, th.in[1])
                          [] th.op = "Clear" -> StoreClear(st)]
       /\ mutex' = [mutex EXCEPT ![SafeSet] = Unlock(@)]
       /\ threads' = [threads EXCEPT ![t] = Idle]
       /\ last' = [last EXCEPT !.op = th.op]
       /\ UNCHANGED <<sets, pc>>

\* what a goroutine does once it has made its call
CloneRun(t) ==
    CloneRLock(t) \/ CloneLen(t) \/ CloneReturn(t) \/ WriteLock(t) \/ WriteReturn(t)

NextStoreClone ==
    \E t \in Threads :
        \/ CloneCall(t)
        \/ \E op \in {"Upsert", "Delete", "Clear"}, key \in Keys : WriteCall(t, op, key)
        \/ CloneRun(t)

SpecStoreClone == InitLocked /\ [][NextStoreClone]_vars
\* the scheduler runs every goroutine that can run, and a goroutine waiting for the
\* mutex gets it when it is free again and again
FairStoreClone == SpecStoreClone /\ \A t \in Threads : SF_vars(CloneRun(t))

\* C36: safeMapStore.Clone always returns when it runs beside Upsert, Delete or
\* Clear on the same store: holding the read lock and taking it again in Len never
\* ends in a deadlock with a writer that arrived in between.
C36_CloneReturns ==
    \A t \in Threads :
        (threads[t].op = "Clone" /\ threads[t].at # "idle") ~> (threads[t].at = "idle")

\* ------------------- the sequence Iter() returns, kept and ranged over at will
\* the times a goroutine ranges over one sequence
MaxRanges == 2

HasSeq(t) == threads[t].iter.kind # ""
Ranging(t) == HasSeq(t) /\ threads[t].iter.ranging

\* seq := s.Iter() or seq := s.IterKeys(): s.lock.RLock() and the closure is
\* returned; the read locks outstanding are capped at MaxCalls
SeqCall(t, kind) ==
    /\ pc = "ok" /\ threads[t].at = "idle" /\ ~HasSeq(t)
    /\ CanRLock(mutex[SafeSet]) /\ mutex[SafeSet].readerCount < MaxCalls
    /\ mutex' = [mutex EXCEPT ![SafeSet] = RLock(@)]
    /\ threads' = [threads EXCEPT ![t].iter = [kind |-> kind, ranging |-> FALSE, ranges |-> 0]]
    /\ UNCHANGED <<stores, sets, last, pc>>

\* `for x := range seq` starts: the closure runs and defers s.lock.RUnlock()
SeqRange(t) ==
    /\ pc = "ok" /\ HasSeq(t) /\ ~Ranging(t) /\ threads[t].iter.ranges < MaxRanges
    /\ threads' = [threads EXCEPT ![t].iter.ranging = TRUE]
    /\ UNCHANGED <<stores, sets, last, pc, mutex>>

\* the range ends (exhausted or broken off) and the deferred RUnlock runs; RUnlock
\* of a mutex that is not read-locked is a fatal error of the runtime
SeqRangeEnd(t) ==
    /\ pc = "ok" /\ Ranging(t)
    /\ IF mutex[SafeSet].readerCount = 0
       THEN pc' = "fatal" /\ UNCHANGED mutex
       ELSE pc' = "ok" /\ mutex' = [mutex EXCEPT ![SafeSet] = RUnlock(@)]
    /\ threads' = [threads EXCEPT ![t].iter = [@ EXCEPT !.ranging = FALSE, !.ranges = @ + 1]]
    /\ UNCHANGED <<stores, sets, last>>

\* the goroutine is done with seq
SeqDrop(t) ==
    /\ pc = "ok" /\ HasSeq(t) /\ ~Ranging(t)
    /\ threads' = [threads EXCEPT ![t].iter = NoIter]
    /\ last' = [op |-> threads[t].iter.kind, recv |-> SafeSet, arg |-> "", in |-> NoInput,
                ret |-> [acquired |-> 1, released |-> threads[t].iter.ranges]]
    /\ UNCHANGED <<stores, sets, pc, mutex>>

\* s.Append(value) from s.lock.Lock() to the deferred Unlock
SeqAppend(t, value) ==
    /\ pc = "ok" /\ threads[t].at = "idle" /\ ~HasSeq(t)
    /\ CanLock(mutex[SafeSet])
    /\ stores' = [stores EXCEPT ![SafeSet].m = MapSet(@, userIDSelector(value), value)]
    /\ last' = [op |-> "Append", recv |-> SafeSet, arg |-> "", in |-> <<value>>,
                ret |-> [acquired |-> 1, released |-> 1]]
    /\ UNCHANGED <<sets, pc, mutex, threads>>

NextSeq ==
    \E t \in Threads :
        \/ \E kind \in {"Iter", "IterKeys"} : SeqCall(t, kind)
        \/ SeqRange(t)
        \/ SeqRangeEnd(t)
        \/ SeqDrop(t)
        \/ \E value \in Values : SeqAppend(t, value)

SpecSeq == InitSafe("keyValueSet") /\ [][NextSeq]_vars

\* C37: every call of the synchronized key-value set's Iter or IterKeys takes the
\* read lock once and releases it once, whether the sequence it returned is ranged
\* over zero times, once or several times: the lock is never released more often
\* than it was taken, and when no goroutine holds a sequence the lock is free.
C37_LockBalance ==
    /\ pc # "fatal"
    /\ last.op \in {"Iter", "IterKeys"} => last.ret.released = last.ret.acquired
    /\ (\A t \in Threads : ~HasSeq(t)) => CanLock(mutex[SafeSet])

\* ------------------------------------------- the map-backed Set[K, V] (unsafeSet)
\* newUnsafe(selector, values...): data[selector(value)] = value for every value
newUnsafe(h, values, fresh) ==
    Derived(Put(h, fresh, NewStoreKeyValue(HashMapUnsafe, values)),
            [type |-> "keyValueSet", store |-> fresh, selector |-> "ID", newStore |-> <<>>])

\* k.Contains(value): the key the selector gives for value is in k.data
unsafeSet_Contains(h, k, value) == userIDSelector(value) \in DOMAIN h[k.store].m

\* if k.Len() < other.Len(): true at the first element of k with !other.Contains(elem);
\* otherwise true at the first element of other with k.Contains(elem)
unsafeSet_Intersects(h, k, other) ==
    IF Set_Len(h, k) < Set_Len(h, other)
    THEN \E key \in DOMAIN h[k.store].m : ~unsafeSet_Contains(h, other, h[k.store].m[key])
    ELSE \E key \in DOMAIN h[other.store].m : unsafeSet_Contains(h, k, h[other.store].m[key])

\* v := NewUnsafe(selector, values...)
DoNewUnsafe(v, values) ==
    /\ pc = "ok"
    /\ Finish(newUnsafe(stores, values, v), "NewUnsafe", "", "", values, v)

\* v.Intersects(w) on two unsafeSets
DoUnsafeIntersects(v, w) ==
    /\ pc = "ok" /\ v \in Live /\ w \in Live
    /\ Finish(Returned(stores, unsafeSet_Intersects(stores, sets[v], sets[w])),
              "unsafeSet.Intersects", v, w, NoInput, "")

NextUnsafeSet ==
    \/ \E v \in {"a", "b"} : \E values \in Inputs("keyValueSet") : DoNewUnsafe(v, values)
    \/ \E v \in Built, w \in Built : DoUnsafeIntersects(v, w)

SpecUnsafeSet == Init /\ [][NextUnsafeSet]_vars

\* C38: for the map-backed Set[K, V], a.Intersects(b) is true iff a and b share at
\* least one key, whichever of the two is the smaller and so is the one scanned,
\* and a.Intersects(b) == b.Intersects(a).
C38_UnsafeIntersects ==
    last.op = "unsafeSet.Intersects" =>
        /\ last.ret.bool = (KeysOf(last.recv) \cap KeysOf(last.arg) # {})
        /\ last.ret.bool = unsafeSet_Intersects(stores, sets[last.arg], sets[last.recv])

\* ------------------------------ a set derived from a synchronized set
\* d := s.Clone(), s.Union(s), s.Intersect(s), s.Difference(s) or
\* s.SymmetricDifference(s)
DerivedSet == "d"
Derivations == {"Clone", "Union", "Intersect", "Difference", "SymmetricDifference"}

\* the method of keyValueSet takes s.lock.RLock() and returns what the method of
\* unsafeKeyValueSet returns: a set from NewKeyValueUnsafe, a map and a selector
\* with no lock of its own
Derive(op) ==
    /\ pc = "ok" /\ DerivedSet \notin Live
    /\ CanRLock(mutex[SafeSet])
    /\ stores' = Put(stores, DerivedSet,
                     [type |-> HashMapUnsafe,
                      m |-> IF op \in {"Clone", "Union", "Intersect"} THEN Data ELSE EmptyMap])
    /\ sets' = Put(sets, DerivedSet,
                   [type |-> "keyValueSet", store |-> DerivedSet, newStore |-> <<>>,
                    selector |-> "ID"])
    /\ last' = [op |-> op, recv |-> SafeSet, arg |-> SafeSet, in |-> NoInput,
                ret |-> [set |-> DerivedSet]]
    /\ UNCHANGED <<pc, mutex, threads>>

\* goroutine t calls d.Append(batch...), its keys being those of no other goroutine
DerivedCall(t, batch) ==
    /\ pc = "ok" /\ DerivedSet \in Live /\ threads[t].at = "idle"
    /\ batch # <<>>
    /\ \A u \in Threads \ {t} : Range(Select(batch)) \cap Range(Select(threads[u].in)) = {}
    /\ threads' = [threads EXCEPT ![t] = [Idle EXCEPT !.op = "Append", !.in = batch,
                                                       !.at = "call"]]
    /\ UNCHANGED <<stores, sets, last, pc, mutex>>

\* the call enters the body of Append: d has a lock to take only if it is in mutex
DerivedEnter(t) ==
    /\ pc = "ok" /\ threads[t].at = "call"
    /\ IF DerivedSet \in DOMAIN mutex
       THEN CanLock(mutex[DerivedSet]) /\ mutex' = [mutex EXCEPT ![DerivedSet] = Lock(@, t)]
       ELSE UNCHANGED mutex
    /\ threads' = [threads EXCEPT ![t].at = "in"]
    /\ UNCHANGED <<stores, sets, last, pc>>

\* the body of unsafeKeyValueSet.Append reads or writes d's map once; when another
\* goroutine is in the body too this is a data race on the map, which the runtime
\* may end with a fatal error
DerivedStep(t) ==
    LET th == threads[t]
    IN /\ pc = "ok" /\ th.at = "in" /\ ~th.loc.done
       /\ \E x \in Access("keyValueSet", th.op, th.in, th.loc, stores[DerivedSet].m) :
             /\ threads' = [threads EXCEPT ![t].loc = x.loc]
             /\ stores' = [stores EXCEPT ![DerivedSet].m = x.m]
       /\ pc' \in IF Inside(Mutators) \ {t} # {} THEN {"ok", "fatal"} ELSE {"ok"}
       /\ UNCHANGED <<sets, last, mutex>>

\* Append returns
DerivedLeave(t) ==
    LET th == threads[t]
    IN /\ pc = "ok" /\ th.at = "in" /\ th.loc.done
       /\ mutex' = IF DerivedSet \in DOMAIN mutex
                   THEN [mutex EXCEPT ![DerivedSet] = Unlock(@)] ELSE mutex
       /\ threads' = [threads EXCEPT ![t] = Idle]
       /\ last' = [op |-> "Append", recv |-> DerivedSet, arg |-> "", in |-> th.in,
                   ret |-> th.loc.ret]
       /\ UNCHANGED <<stores, sets, pc>>

NextDerivedSafe ==
    \/ \E op \in Derivations : Derive(op)
    \/ \E t \in Threads :
          \/ \E batch \in Singles("keyValueSet") : DerivedCall(t, batch)
          \/ DerivedEnter(t)
          \/ DerivedStep(t)
          \/ DerivedLeave(t)

SpecDerivedSafe == InitSafe("keyValueSet") /\ [][NextDerivedSafe]_vars

\* C39: the set returned by Clone, Union, Intersect, Difference or
\* SymmetricDifference of a lock-decorated set is safe for concurrent use: no two
\* mutating calls on it are in their bodies at the same time, the program is never
\* ended by a data race, and an Append that returned has left its keys in the set.
C39_DerivedIsSynchronized ==
    /\ Cardinality(Inside(Mutators)) <= 1
    /\ pc # "fatal"
    /\ (last.op = "Append" /\ last.recv = DerivedSet)
          => Range(Select(last.in)) \subseteq KeysIn(DerivedSet)

\* ------------------------ Union between two synchronized sets, beside writers
\* the goroutines that call Union and the goroutines that call Append or Remove
Unioners == Threads
Writers == {MaxThreads + t : t \in Threads}
Callers == Unioners \cup Writers
\* the first writer works on a, the others on b
WrittenBy(t) == IF t = MaxThreads + 1 THEN PairA ELSE PairB

\* the goroutines blocked in s.lock.Lock() of set v
PendingOn(v) == {t \in Callers : threads[t].at = "Lock" /\ threads[t].loc.recv = v}
CanRLockOn(v) == CanRLock(mutex[v]) /\ PendingOn(v) = {}

InitUnions ==
    /\ \E A \in SUBSET Keys, B \in SUBSET Keys :
          stores = (PairA :> [type |-> HashMapUnsafe, m |-> [key \in A |-> UserOf(key)]])
                      @@ (PairB :> [type |-> HashMapUnsafe, m |-> [key \in B |-> UserOf(key)]])
    /\ sets = [v \in {PairA, PairB} |->
                  [type |-> "keyValueSet", store |-> v, newStore |-> <<>>, selector |-> "ID"]]
    /\ last = [op |-> "start", recv |-> "", arg |-> "", in |-> NoInput,
              ret |-> [end |-> "void"]]
    /\ pc = "ok"
    /\ mutex = [id \in {PairA, PairB} |-> NewRWMutex]
    /\ threads = [t \in Callers |-> Idle]

\* goroutine t calls recv.Union(arg), whose first statement is s.lock.RLock()
UnionCall(t, recv, arg) ==
    /\ pc = "ok" /\ threads[t].at = "idle"
    /\ threads' = [threads EXCEPT ![t] =
                      [Idle EXCEPT !.op = "Union", !.at = "RLock",
                                   !.loc = [recv |-> recv, arg |-> arg, union |-> <<>>]]]
    /\ UNCHANGED <<stores, sets, last, pc, mutex>>

\* s.lock.RLock() returns; defer s.lock.RUnlock(); union := k.Clone()
UnionEnter(t) ==
    LET th == threads[t]
    IN /\ pc = "ok" /\ th.op = "Union" /\ th.at = "RLock"
       /\ CanRLockOn(th.loc.recv)
       /\ mutex' = [mutex EXCEPT ![th.loc.recv] = RLock(@)]
       /\ threads' = [threads EXCEPT ![t] =
                         [@ EXCEPT !.at = "Iter", !.loc.union = stores[th.loc.recv].m]]
       /\ UNCHANGED <<stores, sets, last, pc>>

\* other.Iter(): other's s.lock.RLock() returns and the sequence is handed back
UnionIter(t) ==
    LET th == threads[t]
    IN /\ pc = "ok" /\ th.op = "Union" /\ th.at = "Iter"
       /\ CanRLockOn(th.loc.arg)
       /\ mutex' = [mutex EXCEPT ![th.loc.arg] = RLock(@)]
       /\ threads' = [threads EXCEPT ![t].at = "range"]
       /\ UNCHANGED <<stores, sets, last, pc>>

\* for elem := range other.Iter() { union.Append(elem) }; the sequence's deferred
\* RUnlock runs, then Union's, and the call returns union
UnionReturn(t) ==
    LET th == threads[t]
        union == stores[th.loc.arg].m @@ th.loc.union
    IN /\ pc = "ok" /\ th.op = "Union" /\ th.at = "range"
       /\ mutex' = IF th.loc.recv = th.loc.arg
                   THEN [mutex EXCEPT ![th.loc.recv] = RUnlock(RUnlock(@))]
                   ELSE [mutex EXCEPT ![th.loc.arg] = RUnlock(@), ![th.loc.recv] = RUnlock(@)]
       /\ threads' = [threads EXCEPT ![t] = Idle]
       /\ last' = [op |-> "Union", recv |-> th.loc.recv, arg |-> th.loc.arg, in |-> NoInput,
                   ret |-> [keys |-> DOMAIN union]]
       /\ UNCHANGED <<stores, sets, pc>>

\* goroutine t calls recv.Append(User{key}) or recv.Remove(User{key}), whose first
\* statement is s.lock.Lock()
MutateCall(t, op, recv, key) ==
    /\ pc = "ok" /\ threads[t].at = "idle"
    /\ threads' = [threads EXCEPT ![t] =
                      [Idle EXCEPT !.op = op, !.in = <<UserOf(key)>>, !.at = "Lock",
                                   !.loc = [recv |-> recv, arg |-> "", union |-> <<>>]]]
    /\ UNCHANGED <<stores, sets, last, pc, mutex>>

\* s.lock.Lock() returns
MutateLock(t) ==
    LET th == threads[t]
    IN /\ pc = "ok" /\ th.at = "Lock"
       /\ CanLock(mutex[th.loc.recv])
       /\ mutex' = [mutex EXCEPT ![th.loc.recv] = Lock(@, t)]
       /\ threads' = [threads EXCEPT ![t].at = "in"]
       /\ UNCHANGED <<stores, sets, last, pc>>

\* s.unsafe.Append(v) or s.unsafe.Remove(v) runs, the deferred Unlock runs and the
\* call returns
MutateReturn(t) ==
    LET th == threads[t]
        key == th.in[1].ID
        m == stores[th.loc.recv].m
    IN /\ pc = "ok" /\ th.op \in {"Append", "Remove"} /\ th.at = "in"
       /\ stores' = [stores EXCEPT ![th.loc.recv].m =
                        IF th.op = "Append" THEN MapSet(m, key, th.in[1]) ELSE MapDel(m, key)]
       /\ mutex' = [mutex EXCEPT ![th.loc.recv] = Unlock(@)]
       /\ threads' = [threads EXCEPT ![t] = Idle]
       /\ last' = [op |-> th.op, recv |-> th.loc.recv, arg |-> "", in |-> th.in,
                   ret |-> [keys |-> DOMAIN stores'[th.loc.recv].m]]
       /\ UNCHANGED <<sets, pc>>

\* what a goroutine does once it has made its call
UnionRun(t) ==
    UnionEnter(t) \/ UnionIter(t) \/ UnionReturn(t) \/ MutateLock(t) \/ MutateReturn(t)

NextUnions ==
    \/ \E t \in Unioners, recv \in {PairA, PairB}, arg \in {PairA, PairB} :
          UnionCall(t, recv, arg)
    \/ \E t \in Writers, op \in {"Append", "Remove"}, key \in Keys :
          MutateCall(t, op, WrittenBy(t), key)
    \/ \E t \in Callers : UnionRun(t)

SpecUnions == InitUnions /\ [][NextUnions]_vars
\* the scheduler runs every goroutine that can run, and a goroutine waiting for a
\* lock gets it when it is free again and again
FairUnions == SpecUnions /\ \A t \in Callers : SF_vars(UnionRun(t))

\* C40: when goroutines run a.Union(b) and b.Union(a), or Union with one set as
\* both operands, while other goroutines call Append and Remove on a and b, every
\* call eventually returns: with a waiting writer keeping new read locks out, no
\* set of calls ends up waiting for one another.
C40_UnionsReturn ==
    \A t \in Callers : (threads[t].at # "idle") ~> (threads[t].at = "idle")

====
